---- MODULE Spec2Model ----
(***************************************************************************)
(* A model of the cryptography-playground packages schnorr and multisig.   *)
(*                                                                         *)
(* The packages delegate the curve arithmetic to btcec/v2 (secp256k1).     *)
(* The model keeps the algorithms and scales the numbers down: the curve   *)
(* is y^2 = x^3 + 7 over the prime field of P elements, its group has the  *)
(* prime order N < P, and a "32-byte big-endian value" is a number below   *)
(* B32 > P, so that, as for secp256k1, some 32-byte values are no field    *)
(* element and some field elements are no scalar.                          *)
(***************************************************************************)
EXTENDS Integers, Sequences, FiniteSets, TLC

VARIABLES hist, rnd, heap, setup, psigs, csig, ret, orderN, aret, uret

\* What a session of package multisig holds: heap, the Participant objects its
\* pointers refer to; setup, the *MultisigSetup it was given; psigs, the
\* partial signatures it has collected; csig, the *CompleteSignature it was
\* given; ret, its latest call with what the call returned.
msvars == <<heap, setup, psigs, csig, ret>>

\* What the scalar arithmetic holds: orderN, the value of the big.Int the
\* package variable N points to; aret, the latest call of the arithmetic with
\* its operands before and after and what it returned.
arvars == <<orderN, aret>>

\* What the byte utilities hold: uret, the latest call of one of them with its
\* arguments and what it returned.  They keep no state between calls.
vars == <<hist, rnd, heap, setup, psigs, csig, ret, orderN, aret, uret>>

----------------------------------------------------------------------------
(* Scaled-down curve parameters. *)

\* The field prime of the curve (P mod 4 = 3 and P mod 3 = 1, as secp256k1's).
P == 31627

\* The order of the curve group, a prime.
N == 31357

\* The number of values of a byte, and the length of a [32]byte array: three
\* bytes of five bits hold every field element, as 32 bytes of eight bits do
\* for secp256k1.
ByteBase == 32

Len32 == 3

\* The generator.
G == <<2, 25788>>

\* The point at infinity, the way btcec's affine form writes it.
Infinity == <<0, 0>>

\* A nil pointer (a nil *PrivateKey, *PublicKey, *MultisigSetup, ...).  A
\* pointer to a Participant is <<id>>, id the object's place in the heap.
Nil == <<>>

\* A nil error.
NoErr == "nil"

----------------------------------------------------------------------------
(* Field and curve arithmetic of btcec. *)

RECURSIVE PowP(_, _)
PowP(a, e) ==
    IF e = 0 THEN 1
    ELSE LET h == PowP(a, e \div 2)
             sq == (h * h) % P
         IN  IF e % 2 = 1 THEN (sq * a) % P ELSE sq

InvP(a) == PowP(a % P, P - 2)

IsOnCurve(pt) ==
    /\ pt # Infinity
    /\ (pt[2] * pt[2]) % P = (((pt[1] * pt[1]) % P) * pt[1] + 7) % P

NegPoint(pt) ==
    IF pt = Infinity THEN Infinity ELSE <<pt[1], (P - pt[2]) % P>>

\* Affine addition, for the few sums the packages take of two public points.
AddPoints(a, b) ==
    IF a = Infinity THEN b
    ELSE IF b = Infinity THEN a
    ELSE IF a[1] = b[1] /\ (a[2] + b[2]) % P = 0 THEN Infinity
    ELSE LET lam == IF a[1] = b[1]
                    THEN (((3 * ((a[1] * a[1]) % P)) % P) * InvP(2 * a[2])) % P
                    ELSE (((b[2] - a[2]) % P) * InvP(b[1] - a[1])) % P
             x3  == (lam * lam - a[1] - b[1]) % P
             y3  == (lam * ((a[1] - x3) % P) - a[2]) % P
         IN  <<x3, y3>>

\* btcec multiplies in Jacobian coordinates <<X, Y, Z>>; Z = 0 is infinity.
JacInfinity == <<0, 0, 0>>

JacDouble(j) ==
    IF j[3] = 0 \/ j[2] = 0 THEN JacInfinity
    ELSE LET a  == (j[1] * j[1]) % P
             b  == (j[2] * j[2]) % P
             c  == (b * b) % P
             d  == (4 * ((j[1] * b) % P)) % P
             e  == (3 * a) % P
             x3 == (e * e - 2 * d) % P
             y3 == (e * ((d - x3) % P) - 8 * c) % P
             z3 == (2 * ((j[2] * j[3]) % P)) % P
         IN  <<x3, y3, z3>>

\* Jacobian j plus the affine point pt (pt is not infinity).
JacAddAffine(j, pt) ==
    IF j[3] = 0 THEN <<pt[1], pt[2], 1>>
    ELSE LET zz  == (j[3] * j[3]) % P
             u2  == (pt[1] * zz) % P
             s2  == (((pt[2] * j[3]) % P) * zz) % P
             h   == (u2 - j[1]) % P
             r   == (s2 - j[2]) % P
             hh  == (h * h) % P
             hhh == (hh * h) % P
             v   == (j[1] * hh) % P
             x3  == (r * r - hhh - 2 * v) % P
             y3  == (r * ((v - x3) % P) - ((j[2] * hhh) % P)) % P
             z3  == (j[3] * h) % P
         IN  IF h = 0
             THEN IF r = 0 THEN JacDouble(j) ELSE JacInfinity
             ELSE <<x3, y3, z3>>

ToAffine(j) ==
    IF j[3] = 0 THEN Infinity
    ELSE LET zi  == InvP(j[3])
             zi2 == (zi * zi) % P
         IN  <<(j[1] * zi2) % P, (j[2] * ((zi2 * zi) % P)) % P>>

RECURSIVE JacMult(_, _)
JacMult(k, pt) ==
    IF k = 0 THEN JacInfinity
    ELSE LET d == JacDouble(JacMult(k \div 2, pt))
         IN  IF k % 2 = 1 THEN JacAddAffine(d, pt) ELSE d

\* k*pt: double and add from the top bit of k.
ScalarMult(k, pt) ==
    IF pt = Infinity THEN Infinity ELSE ToAffine(JacMult(k % N, pt))

ScalarBaseMult(k) == ScalarMult(k, G)

IsOddY(pt) == pt[2] % 2 = 1

----------------------------------------------------------------------------
(* Byte arrays: big-endian, Len32 bytes for a field element or a scalar. *)

RECURSIVE PutBytes(_, _)
PutBytes(x, n) ==
    IF n = 0 THEN <<>> ELSE Append(PutBytes(x \div ByteBase, n - 1), x % ByteBase)

RECURSIVE SetBytes(_)
SetBytes(b) ==
    IF Len(b) = 0 THEN 0
    ELSE SetBytes(SubSeq(b, 1, Len(b) - 1)) * ByteBase + b[Len(b)]

PutBytes32(x) == PutBytes(x, Len32)

Zero32 == [i \in 1..Len32 |-> 0]

Zero64 == [i \in 1..(2 * Len32) |-> 0]

----------------------------------------------------------------------------
(* Hashing.  SHA-256 is a fixed mixing function of the length and of every  *)
(* byte of its input onto a [32]byte array.                                 *)

HashPrime == 32717

Absorb(h, v) ==
    LET t == (h * 251 + v + 1) % HashPrime
    IN  (((t * t) % HashPrime) * t) % HashPrime

RECURSIVE AbsorbAll(_, _)
AbsorbAll(h, b) ==
    IF Len(b) = 0 THEN h ELSE AbsorbAll(Absorb(h, b[1]), Tail(b))

Sha256(data) == PutBytes32(AbsorbAll(Absorb(11, Len(data)), data))

TagChallenge == <<3>>

TagNonce == <<5>>

\* chainhash.TaggedHash: SHA256(SHA256(tag) || SHA256(tag) || data).
TaggedHash(tag, data) == Sha256(Sha256(tag) \o Sha256(tag) \o data)

----------------------------------------------------------------------------
(* btcec/v2 and btcec/v2/schnorr, as the packages call them. *)

\* (*PrivateKey).PubKey: d*G.
PubKey(priv) == ScalarBaseMult(priv[1])

\* (*PublicKey).SerializeCompressed: the prefix 2 (even y) or 3 (odd y), then x.
SerializeCompressed(pub) ==
    <<IF IsOddY(pub) THEN 3 ELSE 2>> \o PutBytes32(pub[1])

\* schnorr.SerializePubKey: the compressed form without its prefix.
SerializePubKey(pub) == Tail(SerializeCompressed(pub))

\* schnorr.ParsePubKey: lift_x, the point with this x and an even y.
ParsePubKey(x32) ==
    IF Len(x32) # Len32 THEN [pub |-> Nil, err |-> "bad pubkey length"]
    ELSE LET x == SetBytes(x32)
             c == (((x * x) % P) * x + 7) % P
             y == PowP(c, (P + 1) \div 4)
         IN  IF x >= P THEN [pub |-> Nil, err |-> "invalid public key: x >= field prime"]
             ELSE IF (y * y) % P # c
             THEN [pub |-> Nil, err |-> "invalid public key: x not on curve"]
             ELSE [pub |-> <<x, IF y % 2 = 0 THEN y ELSE P - y>>, err |-> NoErr]

\* schnorr.ParseSignature: r must be a field element and s a scalar.
ParseSignature(sig) ==
    IF Len(sig) # 2 * Len32 THEN [r |-> 0, s |-> 0, err |-> "bad signature length"]
    ELSE LET r == SetBytes(SubSeq(sig, 1, Len32))
             s == SetBytes(SubSeq(sig, Len32 + 1, 2 * Len32))
         IN  IF r >= P THEN [r |-> 0, s |-> 0, err |-> "invalid signature: r >= field prime"]
             ELSE IF s >= N THEN [r |-> 0, s |-> 0, err |-> "invalid signature: s >= group order"]
             ELSE [r |-> r, s |-> s, err |-> NoErr]

\* (*Signature).Serialize: r || s.
SerializeSig(r, s) == PutBytes32(r) \o PutBytes32(s)

\* schnorrVerify: R = s*G - e*P must be finite, have an even y and x(R) = r;
\* the challenge e is taken modulo N.
\* Each step is an operator of the values computed before it, so that a value
\* is computed once.
SchnorrVerify(r, s, hash, pubBytes) ==
    LET CheckR(R) ==
            IF R = Infinity THEN "calculated R point is the point at infinity"
            ELSE IF IsOddY(R) THEN "calculated R y-value is odd"
            ELSE IF R[1] # r THEN "calculated R point was not given R"
            ELSE NoErr
        CheckE(pub, e) ==
            CheckR(AddPoints(ScalarBaseMult(s), ScalarMult((N - (e % N)) % N, pub)))
        CheckKey(pk) ==
            IF pk.err # NoErr THEN pk.err
            ELSE CheckE(pk.pub, SetBytes(TaggedHash(TagChallenge,
                            PutBytes32(r) \o SerializePubKey(pk.pub) \o hash)))
    IN  IF Len(hash) # Len32 THEN "wrong size for message"
        ELSE CheckKey(ParsePubKey(pubBytes))

\* btcec.NonceRFC6979: the candidates of a deterministic generator seeded with
\* the key and the hash; one that is zero or not below N is passed over, and
\* `iteration` more are skipped.
RECURSIVE NonceGen(_, _)
NonceGen(v, skip) ==
    IF v >= 1 /\ v < N
    THEN IF skip = 0 THEN v ELSE NonceGen(Absorb(v, 0), skip - 1)
    ELSE NonceGen(Absorb(v, 0), skip)

NonceRFC6979(privBytes, hash, iteration) ==
    NonceGen(SetBytes(Sha256(privBytes \o hash \o TagNonce)), iteration)

\* schnorrSign: one attempt with the nonce k.
SchnorrSign(d, k, pub, hash) ==
    LET Checked(r, s, v) ==
            IF v # NoErr THEN [r |-> 0, s |-> 0, err |-> v]
            ELSE [r |-> r, s |-> s, err |-> NoErr]
        WithS(r, s) ==
            Checked(r, s, SchnorrVerify(r, s, hash, SerializePubKey(pub)))
        WithE(R0, e) ==
            IF e >= N THEN [r |-> 0, s |-> 0, err |-> "hash of (r || P || m) too big"]
            ELSE WithS(R0[1], ((IF IsOddY(R0) THEN N - k ELSE k) + e * d) % N)
        WithR(R0) ==
            WithE(R0, SetBytes(TaggedHash(TagChallenge,
                          PutBytes32(R0[1]) \o SerializePubKey(pub) \o hash)))
    IN  IF k = 0 THEN [r |-> 0, s |-> 0, err |-> "generated nonce is zero"]
        ELSE WithR(ScalarBaseMult(k))

RECURSIVE SignLoop(_, _, _, _)
SignLoop(d, pub, hash, iteration) ==
    LET Retry(a) ==
            IF a.err = NoErr THEN a ELSE SignLoop(d, pub, hash, iteration + 1)
    IN  Retry(SchnorrSign(d, NonceRFC6979(PutBytes32(d), hash, iteration), pub, hash))

\* schnorr.Sign: the key is negated when its public point has an odd y; the
\* nonce is derived from the key and the hash, and again after a failure.
\* It reads the key it is given, so a nil key panics.
BtcSign(priv, hash) ==
    IF priv = Nil THEN [r |-> 0, s |-> 0, err |-> NoErr, panic |-> TRUE]
    ELSE IF priv[1] % N = 0
    THEN [r |-> 0, s |-> 0, err |-> "private key is zero", panic |-> FALSE]
    ELSE LET WithPub(pub) ==
                 SignLoop(IF IsOddY(pub) THEN N - priv[1] ELSE priv[1], pub, hash, 0)
         IN  [panic |-> FALSE] @@ WithPub(PubKey(priv))

----------------------------------------------------------------------------
(* The inputs the model draws. *)

\* Messages are the byte sequences of at most MaxMsgLen bytes.
MaxMsgLen == 2

MsgBytes == {0, 1}

Msgs == UNION {[1..n -> MsgBytes] : n \in 0..MaxMsgLen}

\* Private keys are the scalars d and N - d for d up to MaxKey; the two have
\* the same x and opposite y.
MaxKey == 2

PrivKeys == {<<d>> : d \in (1..MaxKey) \cup {N - d : d \in 1..MaxKey}}

PubKeys == {PubKey(k) : k \in PrivKeys}


\* The library's results on the inputs the model draws, computed once.  A
\* lookup returns what the call returns; a call outside the table is computed.
Digests == {Sha256(m) : m \in Msgs \ {<<>>}}

XOnlyKeys == {SerializePubKey(p) : p \in PubKeys}

\* The entry of a table under a key, and what is computed for a key the table
\* does not have.
Lookup(table, key, computed) ==
    IF key \in DOMAIN table THEN table[key] ELSE computed

BtcSignTable == [k \in PrivKeys, h \in Digests |-> BtcSign(k, h)]

BtcSignMemo(priv, hash) ==
    Lookup(BtcSignTable, <<priv, hash>>, BtcSign(priv, hash))

SignedRS == {<<sig.r, sig.s>> : sig \in {BtcSignTable[kh] : kh \in PrivKeys \X Digests}}

VerifyRS ==
    UNION {{rs, <<rs[1], (rs[2] + 1) % N>>} : rs \in SignedRS} \cup {<<0, 0>>, <<0, 1>>}

SchnorrVerifyTable ==
    [rs \in VerifyRS, h \in Digests, x \in XOnlyKeys |->
        SchnorrVerify(rs[1], rs[2], h, x)]

SchnorrVerifyMemo(r, s, hash, pubBytes) ==
    Lookup(SchnorrVerifyTable, <<<<r, s>>, hash, pubBytes>>,
           SchnorrVerify(r, s, hash, pubBytes))

\* (Signature).Verify: serializes the key it is given, so a nil key panics.
SigVerify(r, s, hash, pub) ==
    IF pub = Nil THEN [ok |-> FALSE, panic |-> TRUE]
    ELSE [ok |-> SchnorrVerifyMemo(r, s, hash, SerializePubKey(pub)) = NoErr,
          panic |-> FALSE]

----------------------------------------------------------------------------
(* Go's copy(dst[off:], src): as many bytes as fit. *)

CopyAt(dst, off, src) ==
    [i \in 1..Len(dst) |->
        IF i > off /\ i - off <= Len(src) THEN src[i - off] ELSE dst[i]]

----------------------------------------------------------------------------
(* Package schnorr. *)

\* SignBIP340 with plausible slips, which the claims below tell from it:
\* only the first half of the signature is copied out;
SignBIP340_HalfCopy(msg, priv) ==
    IF Len(msg) = 0
    THEN [sig |-> Zero64, err |-> "message cannot be empty", panic |-> FALSE]
    ELSE IF priv = Nil
    THEN [sig |-> Zero64, err |-> "private key cannot be nil", panic |-> FALSE]
    ELSE [sig |-> CopyAt(Zero64, 0, PutBytes32(BtcSignMemo(priv, Sha256(msg)).r)),
          err |-> NoErr, panic |-> FALSE]

\* the nonce is drawn from the entropy source;
SignBIP340_RandomNonce(msg, priv) ==
    IF Len(msg) = 0
    THEN [sig |-> Zero64, err |-> "message cannot be empty", panic |-> FALSE]
    ELSE IF priv = Nil
    THEN [sig |-> Zero64, err |-> "private key cannot be nil", panic |-> FALSE]
    ELSE LET Result(a) ==
                 [sig |-> CopyAt(Zero64, 0, SerializeSig(a.r, a.s)),
                  err |-> a.err, panic |-> FALSE]
             WithPub(pub) ==
                 Result(SchnorrSign(IF IsOddY(pub) THEN N - priv[1] ELSE priv[1],
                                    NonceGen(rnd, 0), pub, Sha256(msg)))
         IN  WithPub(PubKey(priv))

\* the empty message is not refused.
SignBIP340_NoEmptyCheck(msg, priv) ==
    IF priv = Nil
    THEN [sig |-> Zero64, err |-> "private key cannot be nil", panic |-> FALSE]
    ELSE LET Result(a) ==
                 [sig |-> CopyAt(Zero64, 0, SerializeSig(a.r, a.s)),
                  err |-> a.err, panic |-> FALSE]
         IN  Result(BtcSignMemo(priv, Sha256(msg)))

SignBIP340(msg, priv) ==
    IF Len(msg) = 0
    THEN [sig |-> Zero64, err |-> "message cannot be empty", panic |-> FALSE]
    ELSE IF priv = Nil
    THEN [sig |-> Zero64, err |-> "private key cannot be nil", panic |-> FALSE]
    ELSE LET messageHash == Sha256(msg)
             Result(a) ==
                 IF a.panic THEN [sig |-> Zero64, err |-> NoErr, panic |-> TRUE]
                 ELSE IF a.err # NoErr
                 THEN [sig |-> Zero64, err |-> a.err, panic |-> FALSE]
                 ELSE [sig |-> CopyAt(Zero64, 0, SerializeSig(a.r, a.s)),
                       err |-> NoErr, panic |-> FALSE]
         IN  Result(BtcSignMemo(priv, messageHash))

\* VerifyBIP340 with plausible slips: only the first byte of the message is
\* hashed;
VerifyBIP340_FirstByte(msg, pub, sigBz) ==
    IF Len(msg) = 0 THEN [ok |-> FALSE, panic |-> FALSE]
    ELSE IF pub = Nil THEN [ok |-> FALSE, panic |-> FALSE]
    ELSE LET p == ParseSignature(sigBz)
         IN  IF p.err # NoErr THEN [ok |-> FALSE, panic |-> FALSE]
             ELSE SigVerify(p.r, p.s, Sha256(SubSeq(msg, 1, 1)), pub)

\* the signature is verified against the generator instead of the key.
VerifyBIP340_FixedKey(msg, pub, sigBz) ==
    IF Len(msg) = 0 THEN [ok |-> FALSE, panic |-> FALSE]
    ELSE IF pub = Nil THEN [ok |-> FALSE, panic |-> FALSE]
    ELSE LET p == ParseSignature(sigBz)
         IN  IF p.err # NoErr THEN [ok |-> FALSE, panic |-> FALSE]
             ELSE SigVerify(p.r, p.s, Sha256(msg), G)

VerifyBIP340(msg, pub, sigBz) ==
    IF Len(msg) = 0 THEN [ok |-> FALSE, panic |-> FALSE]
    ELSE IF pub = Nil THEN [ok |-> FALSE, panic |-> FALSE]
    ELSE LET messageHash == Sha256(msg)
             p == ParseSignature(sigBz)
         IN  IF p.err # NoErr THEN [ok |-> FALSE, panic |-> FALSE]
             ELSE SigVerify(p.r, p.s, messageHash, pub)

\* XOnlyFromPub with a plausible slip: the prefix byte is not skipped.
XOnlyFromPub_WithPrefix(pub) ==
    IF pub = Nil THEN [out |-> Zero32, panic |-> TRUE]
    ELSE [out |-> CopyAt(Zero32, 0, SerializeCompressed(pub)), panic |-> FALSE]

\* A nil key panics where it is serialized.
XOnlyFromPub(pub) ==
    IF pub = Nil THEN [out |-> Zero32, panic |-> TRUE]
    ELSE LET compressed == SerializeCompressed(pub)
         IN  [out |-> CopyAt(Zero32, 0, Tail(compressed)), panic |-> FALSE]

ParseXOnly(x32) == ParsePubKey(x32)

\* VerifyWithXOnly with a plausible slip: the key is parsed from the first half
\* of the signature, the other byte array at hand.
VerifyWithXOnly_KeyFromSig(msg, sigBz, xOnly) ==
    IF Len(msg) = 0
    THEN [ok |-> FALSE, err |-> "message cannot be empty", panic |-> FALSE]
    ELSE IF ParsePubKey(SubSeq(sigBz, 1, Len32)).err # NoErr
    THEN [ok |-> FALSE, err |-> ParsePubKey(SubSeq(sigBz, 1, Len32)).err,
          panic |-> FALSE]
    ELSE [err |-> NoErr]
         @@ VerifyBIP340(msg, ParsePubKey(SubSeq(sigBz, 1, Len32)).pub, sigBz)

\* VerifyWithXOnly: the key is lifted from its x-coordinate and handed to
\* VerifyBIP340.
VerifyWithXOnly(msg, sigBz, xOnly) ==
    IF Len(msg) = 0
    THEN [ok |-> FALSE, err |-> "message cannot be empty", panic |-> FALSE]
    ELSE IF ParsePubKey(xOnly).err # NoErr
    THEN [ok |-> FALSE, err |-> ParsePubKey(xOnly).err, panic |-> FALSE]
    ELSE [err |-> NoErr] @@ VerifyBIP340(msg, ParsePubKey(xOnly).pub, sigBz)

----------------------------------------------------------------------------
(* Package multisig. *)

\* ToBytes32: copy(out[32-len(b):], b); the slice expression panics when b is
\* longer than the array.
ToBytes32(b) ==
    IF Len(b) > Len32 THEN [out |-> Zero32, panic |-> TRUE]
    ELSE [out |-> CopyAt(Zero32, Len32 - Len(b), b), panic |-> FALSE]

\* The loop of NewMultisigSetup from position i (0-based) on: it reads the
\* object each pointer refers to, which panics for a nil pointer, and writes
\* the position into the object.
RECURSIVE SetupLoop(_, _, _)
SetupLoop(h, participants, i) ==
    IF i = Len(participants) THEN [heap |-> h, err |-> NoErr, panic |-> FALSE]
    ELSE LET p == participants[i + 1]
         IN  IF p = Nil THEN [heap |-> h, err |-> NoErr, panic |-> TRUE]
             ELSE IF h[p[1]].PrivateKey = Nil \/ h[p[1]].PublicKey = Nil
             THEN [heap |-> h, panic |-> FALSE,
                   err |-> "all participants must have valid private and public keys"]
             ELSE SetupLoop([h EXCEPT ![p[1]].Index = i], participants, i + 1)

\* NewMultisigSetup with a plausible slip: the threshold is not compared with
\* the number of participants.
NewMultisigSetup_NoUpperCheck(h, participants, threshold) ==
    IF Len(participants) = 0
    THEN [setup |-> Nil, heap |-> h, panic |-> FALSE,
          err |-> "at least one participant is required"]
    ELSE IF threshold <= 0
    THEN [setup |-> Nil, heap |-> h, panic |-> FALSE,
          err |-> "threshold must be positive"]
    ELSE LET Done(l) ==
                 IF l.panic \/ l.err # NoErr
                 THEN [setup |-> Nil, heap |-> l.heap, panic |-> l.panic, err |-> l.err]
                 ELSE [setup |-> [Participants |-> participants,
                                  Threshold    |-> threshold,
                                  Total        |-> Len(participants)],
                       heap |-> l.heap, panic |-> FALSE, err |-> NoErr]
         IN  Done(SetupLoop(h, participants, 0))

\* NewMultisigSetup over the heap h; it returns the setup, the error and the
\* heap as the loop left it.
NewMultisigSetup(h, participants, threshold) ==
    IF Len(participants) = 0
    THEN [setup |-> Nil, heap |-> h, panic |-> FALSE,
          err |-> "at least one participant is required"]
    ELSE IF threshold <= 0
    THEN [setup |-> Nil, heap |-> h, panic |-> FALSE,
          err |-> "threshold must be positive"]
    ELSE IF threshold > Len(participants)
    THEN [setup |-> Nil, heap |-> h, panic |-> FALSE,
          err |-> "threshold cannot exceed number of participants"]
    ELSE LET Done(l) ==
                 IF l.panic \/ l.err # NoErr
                 THEN [setup |-> Nil, heap |-> l.heap, panic |-> l.panic, err |-> l.err]
                 ELSE [setup |-> [Participants |-> participants,
                                  Threshold    |-> threshold,
                                  Total        |-> Len(participants)],
                       heap |-> l.heap, panic |-> FALSE, err |-> NoErr]
         IN  Done(SetupLoop(h, participants, 0))

\* CreatePartialSignature: a BIP340 signature of the participant's own key.
\* A participant without a private key panics in btcschnorr.Sign, one without
\* a public key where the key is serialized.
CreatePartialSignature(h, msg, participant, set) ==
    IF Len(msg) = 0
    THEN [sig |-> Nil, err |-> "message cannot be empty", panic |-> FALSE]
    ELSE IF participant = Nil
    THEN [sig |-> Nil, err |-> "participant cannot be nil", panic |-> FALSE]
    ELSE IF set = Nil
    THEN [sig |-> Nil, err |-> "setup cannot be nil", panic |-> FALSE]
    ELSE LET messageHash == Sha256(msg)
             obj == h[participant[1]]
             Result(a) ==
                 IF a.panic THEN [sig |-> Nil, err |-> NoErr, panic |-> TRUE]
                 ELSE IF a.err # NoErr THEN [sig |-> Nil, err |-> a.err, panic |-> FALSE]
                 ELSE IF obj.PublicKey = Nil
                 THEN [sig |-> Nil, err |-> NoErr, panic |-> TRUE]
                 ELSE LET sigBytes == SerializeSig(a.r, a.s)
                          pubKey32 == ToBytes32(Tail(SerializeCompressed(obj.PublicKey)))
                      IN  IF pubKey32.panic
                          THEN [sig |-> Nil, err |-> NoErr, panic |-> TRUE]
                          ELSE [sig |-> [R |-> CopyAt(Zero32, 0, SubSeq(sigBytes, 1, Len32)),
                                         S |-> CopyAt(Zero32, 0,
                                                      SubSeq(sigBytes, Len32 + 1, 2 * Len32)),
                                         Index  |-> obj.Index,
                                         PubKey |-> pubKey32.out],
                                err |-> NoErr, panic |-> FALSE]
         IN  Result(BtcSignMemo(obj.PrivateKey, messageHash))

\* CombineSignatures with a plausible slip: as many signatures as the
\* threshold are not enough.
CombineSignatures_OffByOne(partialSigs, set) ==
    IF Len(partialSigs) = 0
    THEN [sig |-> Nil, err |-> "at least one partial signature is required", panic |-> FALSE]
    ELSE IF set = Nil
    THEN [sig |-> Nil, err |-> "setup cannot be nil", panic |-> FALSE]
    ELSE IF Len(partialSigs) <= set.Threshold
    THEN [sig |-> Nil, err |-> "insufficient partial signatures for threshold",
          panic |-> FALSE]
    ELSE [sig |-> [R |-> partialSigs[1].R, S |-> partialSigs[1].S,
                   PubKeys |-> [i \in 1..Len(partialSigs) |-> partialSigs[i].PubKey],
                   Indices |-> [i \in 1..Len(partialSigs) |-> partialSigs[i].Index]],
          err |-> NoErr, panic |-> FALSE]

\* CombineSignatures: the R and S of the first partial signature, with the
\* keys and the indices of all of them.  It reads every element of the list,
\* which panics for a nil one.
CombineSignatures(partialSigs, set) ==
    IF Len(partialSigs) = 0
    THEN [sig |-> Nil, err |-> "at least one partial signature is required", panic |-> FALSE]
    ELSE IF set = Nil
    THEN [sig |-> Nil, err |-> "setup cannot be nil", panic |-> FALSE]
    ELSE IF Len(partialSigs) < set.Threshold
    THEN [sig |-> Nil, err |-> "insufficient partial signatures for threshold",
          panic |-> FALSE]
    ELSE IF \E i \in 1..Len(partialSigs) : partialSigs[i] = Nil
    THEN [sig |-> Nil, err |-> NoErr, panic |-> TRUE]
    ELSE LET firstSig == partialSigs[1]
         IN  [sig |-> [R |-> firstSig.R, S |-> firstSig.S,
                       PubKeys |-> [i \in 1..Len(partialSigs) |-> partialSigs[i].PubKey],
                       Indices |-> [i \in 1..Len(partialSigs) |-> partialSigs[i].Index]],
              err |-> NoErr, panic |-> FALSE]

\* VerifyMultisignature with a plausible slip: the signature is read before
\* it is compared with nil.
VerifyMultisignature_NoNilCheck(msg, sig, set) ==
    IF Len(msg) = 0 THEN [ok |-> FALSE, panic |-> FALSE]
    ELSE IF sig = Nil THEN [ok |-> FALSE, panic |-> TRUE]
    ELSE IF set = Nil THEN [ok |-> FALSE, panic |-> FALSE]
    ELSE IF Len(sig.PubKeys) = 0 THEN [ok |-> FALSE, panic |-> FALSE]
    ELSE LET pubKey == ParsePubKey(sig.PubKeys[1])
             signature == ParseSignature(CopyAt(CopyAt(Zero64, 0, sig.R), Len32, sig.S))
         IN  IF pubKey.err # NoErr THEN [ok |-> FALSE, panic |-> FALSE]
             ELSE IF signature.err # NoErr THEN [ok |-> FALSE, panic |-> FALSE]
             ELSE SigVerify(signature.r, signature.s, Sha256(msg), pubKey.pub)

\* VerifyMultisignature: the signature is verified with the first of its keys.
VerifyMultisignature(msg, sig, set) ==
    IF Len(msg) = 0 THEN [ok |-> FALSE, panic |-> FALSE]
    ELSE IF sig = Nil THEN [ok |-> FALSE, panic |-> FALSE]
    ELSE IF set = Nil THEN [ok |-> FALSE, panic |-> FALSE]
    ELSE IF Len(sig.PubKeys) = 0 THEN [ok |-> FALSE, panic |-> FALSE]
    ELSE LET pubKey == ParsePubKey(sig.PubKeys[1])
             sigBytes == CopyAt(CopyAt(Zero64, 0, sig.R), Len32, sig.S)
             signature == ParseSignature(sigBytes)
             messageHash == Sha256(msg)
         IN  IF pubKey.err # NoErr THEN [ok |-> FALSE, panic |-> FALSE]
             ELSE IF signature.err # NoErr THEN [ok |-> FALSE, panic |-> FALSE]
             ELSE SigVerify(signature.r, signature.s, messageHash, pubKey.pub)

\* The loop of CreateMultisignature from position i (0-based) on, over the
\* first count participants of the setup: it returns at the first error, and
\* reading a position the list does not have panics.
RECURSIVE CreateLoop(_, _, _, _, _, _)
CreateLoop(h, msg, set, count, i, partialSigs) ==
    IF i >= count
    THEN [partialSigs |-> partialSigs, err |-> NoErr, panic |-> FALSE]
    ELSE IF i >= Len(set.Participants)
    THEN [partialSigs |-> partialSigs, err |-> NoErr, panic |-> TRUE]
    ELSE LET Step(ps) ==
                 IF ps.panic \/ ps.err # NoErr
                 THEN [partialSigs |-> partialSigs, err |-> ps.err, panic |-> ps.panic]
                 ELSE CreateLoop(h, msg, set, count, i + 1, Append(partialSigs, ps.sig))
         IN  Step(CreatePartialSignature(h, msg, set.Participants[i + 1], set))

\* CreateMultisignature with a plausible slip: every participant of the setup
\* signs, not the first Threshold of them.
CreateMultisignature_AllSign(h, msg, set) ==
    IF Len(msg) = 0
    THEN [sig |-> Nil, err |-> "message cannot be empty", panic |-> FALSE]
    ELSE IF set = Nil
    THEN [sig |-> Nil, err |-> "setup cannot be nil", panic |-> FALSE]
    ELSE LET Combine(l) ==
                 IF l.panic \/ l.err # NoErr
                 THEN [sig |-> Nil, err |-> l.err, panic |-> l.panic]
                 ELSE CombineSignatures(l.partialSigs, set)
         IN  Combine(CreateLoop(h, msg, set, set.Total, 0, <<>>))

\* CreateMultisignature: the partial signatures of the first Threshold
\* participants of the setup, combined.
CreateMultisignature(h, msg, set) ==
    IF Len(msg) = 0
    THEN [sig |-> Nil, err |-> "message cannot be empty", panic |-> FALSE]
    ELSE IF set = Nil
    THEN [sig |-> Nil, err |-> "setup cannot be nil", panic |-> FALSE]
    ELSE LET Combine(l) ==
                 IF l.panic \/ l.err # NoErr
                 THEN [sig |-> Nil, err |-> l.err, panic |-> l.panic]
                 ELSE CombineSignatures(l.partialSigs, set)
         IN  Combine(CreateLoop(h, msg, set, set.Threshold, 0, <<>>))

\* The end of SignAndVerifyMultisig: the verdict of VerifyMultisignature
\* becomes the result.
Verified(v) ==
    IF v.panic THEN [ok |-> FALSE, err |-> NoErr, panic |-> TRUE]
    ELSE IF ~v.ok
    THEN [ok |-> FALSE, err |-> "multisignature verification failed", panic |-> FALSE]
    ELSE [ok |-> TRUE, err |-> NoErr, panic |-> FALSE]

\* SignAndVerifyMultisig after CreateMultisignature has returned cs.
Signed(msg, set, cs) ==
    IF cs.panic \/ cs.err # NoErr
    THEN [ok |-> FALSE, err |-> cs.err, panic |-> cs.panic]
    ELSE Verified(VerifyMultisignature(msg, cs.sig, set))

\* SignAndVerifyMultisig after NewMultisigSetup has returned su.
SetUp(msg, su) ==
    IF su.panic \/ su.err # NoErr
    THEN [ok |-> FALSE, err |-> su.err, panic |-> su.panic]
    ELSE Signed(msg, su.setup, CreateMultisignature(su.heap, msg, su.setup))

\* SignAndVerifyMultisig.  draws[i] is what the i-th btcec.NewPrivateKey
\* returns, a private key or Nil with an error; the Participant objects are
\* made here, object i with Index i - 1.  make panics for a negative total.
SignAndVerifyMultisig(msg, threshold, total, draws) ==
    IF threshold > total
    THEN [ok |-> FALSE, err |-> "threshold cannot exceed total", panic |-> FALSE]
    ELSE IF total < 0
    THEN [ok |-> FALSE, err |-> NoErr, panic |-> TRUE]
    ELSE IF \E i \in 1..total : draws[i] = Nil
    THEN [ok |-> FALSE, err |-> "entropy source failed", panic |-> FALSE]
    ELSE SetUp(msg, NewMultisigSetup(
                   [i \in 1..total |->
                       [PrivateKey |-> draws[i], PublicKey |-> PubKey(draws[i]),
                        Index |-> i - 1]],
                   [i \in 1..total |-> <<i>>], threshold))

----------------------------------------------------------------------------
(* The scalar arithmetic (package arithmetic, and the same functions in     *)
(* package multisig).  A *big.Int is a pointer: mem is the sequence of the  *)
(* values of the big.Int objects of a call, a pointer is a position in it,  *)
(* and the object the package variable N points to is the first.  A         *)
(* function returns the memory as it left it and the pointer it returns.    *)

OrderPtr == 1

\* ModN: x.Mod(x, N) writes the Euclidean remainder into the object x points
\* to (big.Int.Mod panics for a modulus 0, and reads N before it writes x
\* where the two are one object); the result is never negative, so the
\* addition of N is not reached.  The pointer returned is x.
ModN(mem, x) ==
    IF mem[OrderPtr] = 0 THEN [mem |-> mem, out |-> Nil, panic |-> TRUE]
    ELSE LET reduced == [mem EXCEPT ![x] = mem[x] % mem[OrderPtr]]
         IN  [mem |-> IF reduced[x] < 0
                      THEN [reduced EXCEPT ![x] = reduced[x] + reduced[OrderPtr]]
                      ELSE reduced,
              out |-> x, panic |-> FALSE]

\* AddModN with a plausible slip: the sum is returned as it is.
AddModN_NoReduce(mem, a, b) ==
    [mem |-> Append(mem, mem[a] + mem[b]), out |-> Len(mem) + 1, panic |-> FALSE]

\* AddModN: out := new(big.Int).Add(a, b) is a new object; ModN reduces it.
AddModN(mem, a, b) ==
    ModN(Append(mem, mem[a] + mem[b]), Len(mem) + 1)

\* MulModN: out := new(big.Int).Mul(a, b); ModN reduces it.
MulModN(mem, a, b) ==
    ModN(Append(mem, mem[a] * mem[b]), Len(mem) + 1)

\* NegModN: out := new(big.Int).Sub(N, a); ModN reduces it.
NegModN(mem, a) ==
    ModN(Append(mem, mem[OrderPtr] - mem[a]), Len(mem) + 1)

\* The loop of RandScalar from the i-th read of the entropy source on.
\* stream[i] is what the i-th rand.Read returns, 32 bytes or Nil with an
\* error; n is the value of N.  reads is the number of reads made.
RECURSIVE RandLoop(_, _, _)
RandLoop(n, stream, i) ==
    IF stream[i] = Nil
    THEN [k |-> Nil, err |-> "entropy source failed", reads |-> i, panic |-> FALSE]
    ELSE IF n = 0
    THEN [k |-> Nil, err |-> NoErr, reads |-> i, panic |-> TRUE]
    ELSE IF SetBytes(stream[i]) % n # 0
    THEN [k |-> <<SetBytes(stream[i]) % n>>, err |-> NoErr, reads |-> i,
          panic |-> FALSE]
    ELSE RandLoop(n, stream, i + 1)

\* RandScalar with a plausible slip: the first draw is returned, zero or not.
RandScalar_NoRetry(n, stream) ==
    IF stream[1] = Nil
    THEN [k |-> Nil, err |-> "entropy source failed", reads |-> 1, panic |-> FALSE]
    ELSE IF n = 0
    THEN [k |-> Nil, err |-> NoErr, reads |-> 1, panic |-> TRUE]
    ELSE [k |-> <<SetBytes(stream[1]) % n>>, err |-> NoErr, reads |-> 1,
          panic |-> FALSE]

\* RandScalar: a pointer to a new big.Int of value k (<<k>>) and no error, or
\* Nil and the error of the entropy source.
RandScalar(n, stream) == RandLoop(n, stream, 1)

----------------------------------------------------------------------------
(* The inputs the model draws, continued. *)

\* What the entropy source returns next.
RndVals == {1, 2}

AllOnes32 == [i \in 1..Len32 |-> ByteBase - 1]

\* The signatures handed to a verification after a signing that returned sig:
\* sig itself, sig with s + 1, all zero bytes, and bytes that are no signature.
TamperS(sig) ==
    CopyAt(sig, Len32, PutBytes32((SetBytes(SubSeq(sig, Len32 + 1, 2 * Len32)) + 1) % N))

SigChoices(sig) == {sig, TamperS(sig), Zero64, AllOnes32 \o AllOnes32}

\* The Participant objects of a session: object id, for id from 1 to MaxKey,
\* holds the key pair of the private key id; object 0 holds no keys.
ParticipantIds == 0..MaxKey

InitHeap ==
    [id \in ParticipantIds |->
        IF id = 0 THEN [PrivateKey |-> Nil, PublicKey |-> Nil, Index |-> 0]
        ELSE [PrivateKey |-> <<id>>, PublicKey |-> PubKey(<<id>>), Index |-> 0]]

ParticipantPtrs == {<<id>> : id \in ParticipantIds}

\* The lists handed to NewMultisigSetup hold at most MaxParticipants pointers;
\* a pointer may occur more than once in a list.
MaxParticipants == 2

ParticipantLists == UNION {[1..n -> ParticipantPtrs] : n \in 0..MaxParticipants}

Thresholds == (0 - 1)..(MaxParticipants + 1)

\* A session collects at most MaxSigs partial signatures.
MaxSigs == 2

\* The messages handed to CreatePartialSignature and to VerifyMultisignature.
SignMsgs == {<<>>, <<1>>}

\* The numbers of participants handed to SignAndVerifyMultisig, and what the
\* key generation returns for each of them.
Totals == (0 - 1)..MaxParticipants

KeyDraws(total) == [1..total -> PrivKeys \cup {Nil}]

VerifyMsgs == {<<>>, <<0>>, <<1>>}

\* The signatures handed to VerifyMultisignature after CombineSignatures
\* returned sig: sig itself, sig with the key and the index of its first signer
\* only, sig with S + 1, with R and S zero, with an R that is no field element,
\* without keys and with a key that is no x-coordinate.
CompleteSigChoices(sig) ==
    IF sig = Nil THEN {Nil}
    ELSE {sig,
          [sig EXCEPT !.PubKeys = <<Head(@)>>, !.Indices = <<Head(@)>>],
          [sig EXCEPT !.S = PutBytes32((SetBytes(@) + 1) % N)],
          [sig EXCEPT !.R = Zero32, !.S = Zero32],
          [sig EXCEPT !.R = AllOnes32],
          [sig EXCEPT !.PubKeys = <<>>],
          [sig EXCEPT !.PubKeys = <<AllOnes32>>]}

\* The integers handed to the arithmetic lie around 0, N and -N, with the
\* -100 and N + 100 of the package's tests; the scalars are those of them in
\* [0, N), and N / 2.
MaxScalar == 2

IntInputs ==
    UNION {{d, 0 - d, N - d, N + d, d - N, 0 - N - d} : d \in 0..MaxScalar}
       \cup {0 - 100, N + 100}

Scalars == {d : d \in 0..MaxScalar} \cup {N - 1 - d : d \in 0..MaxScalar} \cup {N \div 2}

\* The operands of a call: the object of N first, then at most n new objects
\* with values from vals.
Operands(vals, n) == {<<orderN>> \o vs : vs \in UNION {[1..k -> vals] : k \in 0..n}}

\* What one rand.Read returns: 32 bytes, of a value that reduces to 0, of one
\* that is a scalar, of one above N, or Nil with an error.  RandScalar is
\* handed the returns of at most MaxDraws reads.
MaxDraws == 3

EntropyReads ==
    {PutBytes32(v) : v \in {0, N, ByteBase ^ Len32 - 1}
                            \cup UNION {{d, N - d, N + d} : d \in 1..MaxScalar}}
       \cup {Nil}

Streams == UNION {[1..n -> EntropyReads] : n \in 1..MaxDraws}

----------------------------------------------------------------------------
(* The calls of a session, in hist.  A session of package schnorr signs,    *)
(* then signs again or verifies; or it takes the x-only form of a key,      *)
(* parses it and takes the x-only form of the result.                       *)

\* rnd is what the entropy source (crypto/rand) would return if it were read
\* now; it has moved on by the time of the next call.
Init ==
    /\ hist = <<>>
    /\ rnd \in RndVals
    /\ heap = InitHeap
    /\ setup = Nil
    /\ psigs = <<>>
    /\ csig = Nil
    /\ ret = Nil
    /\ orderN = N
    /\ aret = Nil
    /\ uret = Nil

Last == hist[Len(hist)]

DoSignBIP340 ==
    /\ ret = Nil /\ aret = Nil /\ uret = Nil
    /\ \/ hist = <<>>
       \/ Len(hist) = 1 /\ hist[1].op = "SignBIP340"
    /\ \E msg \in Msgs, priv \in PrivKeys \cup {Nil} :
          hist' = Append(hist, [op |-> "SignBIP340", msg |-> msg, priv |-> priv]
                               @@ SignBIP340(msg, priv))
    /\ rnd' \in RndVals
    /\ UNCHANGED <<msvars, arvars, uret>>

DoVerifyBIP340 ==
    /\ ret = Nil /\ aret = Nil /\ uret = Nil
    /\ Len(hist) = 1 /\ hist[1].op = "SignBIP340"
    /\ \E msg \in Msgs, pub \in PubKeys \cup {Nil}, sig \in SigChoices(hist[1].sig) :
          hist' = Append(hist, [op |-> "VerifyBIP340", msg |-> msg, pub |-> pub,
                                sig |-> sig] @@ VerifyBIP340(msg, pub, sig))
    /\ rnd' \in RndVals
    /\ UNCHANGED <<msvars, arvars, uret>>

DoXOnlyFromPub ==
    /\ ret = Nil /\ aret = Nil /\ uret = Nil
    /\ \/ hist = <<>>
       \/ Len(hist) = 2 /\ Last.op = "ParseXOnly" /\ Last.err = NoErr
    /\ \E pub \in (IF hist = <<>> THEN PubKeys ELSE {Last.pub}) :
          hist' = Append(hist, [op |-> "XOnlyFromPub", pub |-> pub]
                               @@ XOnlyFromPub(pub))
    /\ rnd' \in RndVals
    /\ UNCHANGED <<msvars, arvars, uret>>

DoParseXOnly ==
    /\ ret = Nil /\ aret = Nil /\ uret = Nil
    /\ Len(hist) = 1 /\ hist[1].op = "XOnlyFromPub"
    /\ \E x32 \in {hist[1].out, Zero32, AllOnes32} :
          hist' = Append(hist, [op |-> "ParseXOnly", x32 |-> x32] @@ ParseXOnly(x32))
    /\ rnd' \in RndVals
    /\ UNCHANGED <<msvars, arvars, uret>>

\* The x-only keys handed to VerifyWithXOnly: those of the model's public
\* keys, and bytes that are no x-coordinate of the curve.
XOnlyChoices == {XOnlyFromPub(pub).out : pub \in PubKeys} \cup {AllOnes32}

DoVerifyWithXOnly ==
    /\ ret = Nil /\ aret = Nil /\ uret = Nil
    /\ Len(hist) = 1 /\ hist[1].op = "SignBIP340"
    /\ \E msg \in Msgs, xOnly \in XOnlyChoices, sig \in SigChoices(hist[1].sig) :
          hist' = Append(hist, [op |-> "VerifyWithXOnly", msg |-> msg,
                                xOnly |-> xOnly, sig |-> sig]
                               @@ VerifyWithXOnly(msg, sig, xOnly))
    /\ rnd' \in RndVals
    /\ UNCHANGED <<msvars, arvars, uret>>

NextSchnorr ==
    \/ DoSignBIP340
    \/ DoVerifyBIP340
    \/ DoVerifyWithXOnly
    \/ DoXOnlyFromPub
    \/ DoParseXOnly

SpecSchnorr == Init /\ [][NextSchnorr]_vars

----------------------------------------------------------------------------
(* A session of package multisig makes a setup, collects partial            *)
(* signatures, combines them and verifies the result, going on with what    *)
(* it was given when a call fails; a panic ends it.                         *)

DoNewMultisigSetup ==
    /\ hist = <<>> /\ ret = Nil /\ aret = Nil /\ uret = Nil
    /\ \E participants \in ParticipantLists, threshold \in Thresholds :
          \E res \in {NewMultisigSetup(heap, participants, threshold)} :
              /\ heap' = res.heap
              /\ setup' = res.setup
              /\ ret' = [op |-> "NewMultisigSetup", participants |-> participants,
                         threshold |-> threshold, setup |-> res.setup,
                         err |-> res.err, panic |-> res.panic]
    /\ UNCHANGED <<hist, rnd, psigs, csig, arvars, uret>>

DoCreatePartialSignature ==
    /\ ret # Nil /\ ~ret.panic
    /\ ret.op \in {"NewMultisigSetup", "CreatePartialSignature"}
    /\ Len(psigs) < MaxSigs
    /\ \E msg \in SignMsgs, participant \in ParticipantPtrs \cup {Nil} :
          \E res \in {CreatePartialSignature(heap, msg, participant, setup)} :
              /\ psigs' = IF res.sig # Nil THEN Append(psigs, res.sig) ELSE psigs
              /\ ret' = [op |-> "CreatePartialSignature", msg |-> msg,
                         participant |-> participant] @@ res
    /\ rnd' \in RndVals
    /\ UNCHANGED <<hist, heap, setup, csig, arvars, uret>>

DoCombineSignatures ==
    /\ ret # Nil /\ ~ret.panic
    /\ ret.op \in {"NewMultisigSetup", "CreatePartialSignature"}
    /\ \E res \in {CombineSignatures(psigs, setup)} :
           /\ csig' = res.sig
           /\ ret' = [op |-> "CombineSignatures", partialSigs |-> psigs,
                      setup |-> setup] @@ res
    /\ UNCHANGED <<hist, rnd, heap, setup, psigs, arvars, uret>>

DoCreateMultisignature ==
    /\ ret # Nil /\ ~ret.panic
    /\ ret.op = "NewMultisigSetup"
    /\ \E msg \in SignMsgs :
          \E res \in {CreateMultisignature(heap, msg, setup)} :
              /\ csig' = res.sig
              /\ ret' = [op |-> "CreateMultisignature", msg |-> msg,
                         setup |-> setup] @@ res
    /\ rnd' \in RndVals
    /\ UNCHANGED <<hist, heap, setup, psigs, arvars, uret>>

DoSignAndVerifyMultisig ==
    /\ hist = <<>> /\ ret = Nil /\ aret = Nil /\ uret = Nil
    /\ \E msg \in SignMsgs, threshold \in Thresholds, total \in Totals :
          \E draws \in KeyDraws(total) :
              ret' = [op |-> "SignAndVerifyMultisig", msg |-> msg,
                      threshold |-> threshold, total |-> total, draws |-> draws]
                     @@ SignAndVerifyMultisig(msg, threshold, total, draws)
    /\ rnd' \in RndVals
    /\ UNCHANGED <<hist, heap, setup, psigs, csig, arvars, uret>>

DoVerifyMultisignature ==
    /\ ret # Nil /\ ~ret.panic
    /\ ret.op \in {"CombineSignatures", "CreateMultisignature"}
    /\ \E msg \in VerifyMsgs, sig \in CompleteSigChoices(csig), set \in {setup, Nil} :
          ret' = [op |-> "VerifyMultisignature", msg |-> msg, sig |-> sig,
                  setup |-> set] @@ VerifyMultisignature(msg, sig, set)
    /\ UNCHANGED <<hist, rnd, heap, setup, psigs, csig, arvars, uret>>

NextMultisig ==
    \/ DoNewMultisigSetup
    \/ DoCreatePartialSignature
    \/ DoCombineSignatures
    \/ DoCreateMultisignature
    \/ DoSignAndVerifyMultisig
    \/ DoVerifyMultisignature

SpecMultisig == Init /\ [][NextMultisig]_vars

----------------------------------------------------------------------------
(* The calls of the scalar arithmetic, the latest in aret.  An operand is   *)
(* a new big.Int or the pointer that GetCurveOrder returns, N itself.  A    *)
(* panic ends the program.  A call that has left N as it was has left the   *)
(* program as it was at the start, where every call is possible already,    *)
(* so a run goes on after a call only where the call has changed N.         *)

ArithmeticGoesOn ==
    /\ hist = <<>> /\ ret = Nil /\ uret = Nil
    /\ IF aret = Nil THEN TRUE ELSE ~aret.panic /\ orderN # N

\* the call op with the operands args of the memory mem returned res
Returned(op, mem, args, res) ==
    /\ orderN' = res.mem[OrderPtr]
    /\ aret' = [op |-> op, args |-> args, before |-> mem, after |-> res.mem,
                out |-> res.out, panic |-> res.panic]
    /\ UNCHANGED <<hist, rnd, msvars, uret>>

DoModN ==
    /\ ArithmeticGoesOn
    /\ \E mem \in Operands(IntInputs, 1) :
          Returned("ModN", mem, <<Len(mem)>>, ModN(mem, Len(mem)))

DoAddModN ==
    /\ ArithmeticGoesOn
    /\ \E mem \in Operands(IntInputs, 2) :
          \E a, b \in 1..Len(mem) :
              /\ \A i \in 2..Len(mem) : i \in {a, b}
              /\ Returned("AddModN", mem, <<a, b>>, AddModN(mem, a, b))

DoMulModN ==
    /\ ArithmeticGoesOn
    /\ \E mem \in Operands(IntInputs, 2) :
          \E a, b \in 1..Len(mem) :
              /\ \A i \in 2..Len(mem) : i \in {a, b}
              /\ Returned("MulModN", mem, <<a, b>>, MulModN(mem, a, b))

DoNegModN ==
    /\ ArithmeticGoesOn
    /\ \E mem \in Operands(IntInputs, 1) :
          Returned("NegModN", mem, <<Len(mem)>>, NegModN(mem, Len(mem)))

NextArithmetic ==
    \/ DoModN
    \/ DoAddModN
    \/ DoMulModN
    \/ DoNegModN

SpecArithmetic == Init /\ [][NextArithmetic]_vars

\* The compositions of the package's TestArithmeticProperties, on new
\* objects a, b, c at the positions 2, 3, 4 of the memory: a call is made
\* with the memory the call before it left, unless that one panicked.
\* left := AddModN(AddModN(a, b), c); right := AddModN(a, AddModN(b, c))
AddModNAssociativity(mem) ==
    LET ab    == AddModN(mem, 2, 3)
        left  == IF ab.panic THEN ab ELSE AddModN(ab.mem, ab.out, 4)
        bc    == IF left.panic THEN left ELSE AddModN(left.mem, 3, 4)
        right == IF bc.panic THEN bc ELSE AddModN(bc.mem, 2, bc.out)
    IN  [mem |-> right.mem, left |-> left.out, right |-> right.out,
         panic |-> right.panic]

\* left := MulModN(a, AddModN(b, c)); right := AddModN(MulModN(a, b), MulModN(a, c))
MulModNDistributivity(mem) ==
    LET bc    == AddModN(mem, 3, 4)
        left  == IF bc.panic THEN bc ELSE MulModN(bc.mem, 2, bc.out)
        ab    == IF left.panic THEN left ELSE MulModN(left.mem, 2, 3)
        ac    == IF ab.panic THEN ab ELSE MulModN(ab.mem, 2, 4)
        right == IF ac.panic THEN ac ELSE AddModN(ac.mem, ab.out, ac.out)
    IN  [mem |-> right.mem, left |-> left.out, right |-> right.out,
         panic |-> right.panic]

\* left := AddModN(a, NegModN(a)); right := NegModN(NegModN(a))
NegModNDoubleNegation(mem) ==
    LET neg   == NegModN(mem, 2)
        left  == IF neg.panic THEN neg ELSE AddModN(neg.mem, 2, neg.out)
        right == IF left.panic THEN left ELSE NegModN(left.mem, neg.out)
    IN  [mem |-> right.mem, left |-> left.out, right |-> right.out,
         panic |-> right.panic]

\* the composition op on the memory mem returned res
Evaluated(op, mem, res) ==
    /\ orderN' = res.mem[OrderPtr]
    /\ aret' = [op |-> op, before |-> mem, after |-> res.mem,
                left |-> res.left, right |-> res.right, panic |-> res.panic]
    /\ UNCHANGED <<hist, rnd, msvars, uret>>

DoAddModNAssociativity ==
    /\ ArithmeticGoesOn
    /\ \E a, b, c \in Scalars :
          Evaluated("AddModNAssociativity", <<orderN, a, b, c>>,
                    AddModNAssociativity(<<orderN, a, b, c>>))

DoMulModNDistributivity ==
    /\ ArithmeticGoesOn
    /\ \E a, b, c \in Scalars :
          Evaluated("MulModNDistributivity", <<orderN, a, b, c>>,
                    MulModNDistributivity(<<orderN, a, b, c>>))

DoNegModNDoubleNegation ==
    /\ ArithmeticGoesOn
    /\ \E a \in Scalars :
          Evaluated("NegModNDoubleNegation", <<orderN, a>>,
                    NegModNDoubleNegation(<<orderN, a>>))

NextFieldLaws ==
    \/ DoAddModNAssociativity
    \/ DoMulModNDistributivity
    \/ DoNegModNDoubleNegation

SpecFieldLaws == Init /\ [][NextFieldLaws]_vars

\* RandScalar reads the entropy source until it returns; the reads it would
\* need beyond MaxDraws are not drawn.
DoRandScalar ==
    /\ ArithmeticGoesOn
    /\ \E stream \in Streams :
          /\ \E i \in 1..Len(stream) :
                IF stream[i] = Nil \/ orderN = 0 THEN TRUE
                ELSE SetBytes(stream[i]) % orderN # 0
          /\ aret' = [op |-> "RandScalar", stream |-> stream]
                     @@ RandScalar(orderN, stream)
    /\ UNCHANGED <<hist, rnd, msvars, orderN, uret>>

NextRandScalar == DoRandScalar

SpecRandScalar == Init /\ [][NextRandScalar]_vars

----------------------------------------------------------------------------
(* ToBytes32 of package arithmetic, next to the copy in package multisig. *)

\* arithmetic.ToBytes32: the rightmost 32 bytes of a longer slice, a shorter
\* one right-aligned.
ArithmeticToBytes32(b) ==
    IF Len(b) > Len32
    THEN [out |-> CopyAt(Zero32, 0, SubSeq(b, Len(b) - Len32 + 1, Len(b))),
          panic |-> FALSE]
    ELSE [out |-> CopyAt(Zero32, Len32 - Len(b), b), panic |-> FALSE]

\* The slices handed to ToBytes32 are up to MaxOver bytes longer than the
\* array.
MaxOver == 2

Slices == UNION {[1..n -> {0, 1, ByteBase - 1}] : n \in 0..(Len32 + MaxOver)}

\* One slice is handed to both copies.
DoToBytes32 ==
    /\ hist = <<>> /\ ret = Nil /\ aret = Nil /\ uret = Nil
    /\ \E b \in Slices :
          uret' = [op |-> "ToBytes32", b |-> b,
                   multisig |-> ToBytes32(b),
                   arithmetic |-> ArithmeticToBytes32(b)]
    /\ UNCHANGED <<hist, rnd, msvars, arvars>>

NextToBytes32 == DoToBytes32

SpecToBytes32 == Init /\ [][NextToBytes32]_vars

----------------------------------------------------------------------------
(* Package base58.  Bytes are bytes here, 0..255, and a string is the      *)
(* sequence of its characters.  A big.Int is the sequence of its bytes,    *)
(* big-endian and without leading zero bytes, as the method Bytes of       *)
(* big.Int returns it; 0 is the empty sequence.                            *)

Alphabet ==
    <<"1", "2", "3", "4", "5", "6", "7", "8", "9", "A", "B", "C", "D", "E",
      "F", "G", "H", "J", "K", "L", "M", "N", "P", "Q", "R", "S", "T", "U",
      "V", "W", "X", "Y", "Z", "a", "b", "c", "d", "e", "f", "g", "h", "i",
      "j", "k", "m", "n", "o", "p", "q", "r", "s", "t", "u", "v", "w", "x",
      "y", "z">>

\* strings.IndexRune(alphabet, char)
IndexRune(char) ==
    IF \E i \in 1..Len(Alphabet) : Alphabet[i] = char
    THEN (CHOOSE i \in 1..Len(Alphabet) : Alphabet[i] = char) - 1
    ELSE 0 - 1

\* new(big.Int).SetBytes(data): the bytes after the leading zero bytes
RECURSIVE StripZeros(_)
StripZeros(b) ==
    IF b = <<>> THEN b
    ELSE IF Head(b) = 0 THEN StripZeros(Tail(b))
    ELSE b

\* num.DivMod(num, base, mod) for a small base: the division byte by byte from
\* position i on, with the quotient bytes and the remainder so far.
RECURSIVE DivModLoop(_, _, _, _, _)
DivModLoop(num, base, i, quo, rem) ==
    IF i > Len(num) THEN [quo |-> StripZeros(quo), rem |-> rem]
    ELSE DivModLoop(num, base, i + 1,
                    Append(quo, (rem * 256 + num[i]) \div base),
                    (rem * 256 + num[i]) % base)

DivMod(num, base) == DivModLoop(num, base, 1, <<>>, 0)

\* num.Mul(num, base) and num.Add(num, pos) for a small base and pos: byte by
\* byte from the last position i down, with the carry.
RECURSIVE MulAddLoop(_, _, _, _, _)
MulAddLoop(num, base, i, carry, acc) ==
    IF i = 0 THEN StripZeros(<<carry>> \o acc)
    ELSE MulAddLoop(num, base, i - 1,
                    (num[i] * base + carry) \div 256,
                    <<(num[i] * base + carry) % 256>> \o acc)

MulAdd(num, base, pos) == MulAddLoop(num, base, Len(num), pos, <<>>)

\* the loop of Encode: the remainders of the divisions by 58, the last one
\* first in the result
RECURSIVE EncodeLoop(_, _)
EncodeStep(dm, result) ==
    EncodeLoop(dm.quo, <<Alphabet[dm.rem + 1]>> \o result)

EncodeLoop(num, result) ==
    IF num = <<>> THEN result
    ELSE EncodeStep(DivMod(num, Len(Alphabet)), result)

\* the number of leading bytes 0x00 of data
RECURSIVE LeadingZeroCount(_)
LeadingZeroCount(data) ==
    IF data = <<>> THEN 0
    ELSE IF Head(data) = 0 THEN 1 + LeadingZeroCount(Tail(data))
    ELSE 0

\* Encode with a plausible slip: no '1' is added for the leading zero bytes.
Base58Encode_NoLeadingOnes(data) == EncodeLoop(StripZeros(data), <<>>)

\* base58.Encode
Base58Encode(data) ==
    [i \in 1..LeadingZeroCount(data) |-> "1"] \o EncodeLoop(StripZeros(data), <<>>)

\* the number of leading characters '1' of data
RECURSIVE LeadingOneCount(_)
LeadingOneCount(data) ==
    IF data = <<>> THEN 0
    ELSE IF Head(data) = "1" THEN 1 + LeadingOneCount(Tail(data))
    ELSE 0

\* the loop of Decode over the characters from position i on
RECURSIVE DecodeLoop(_, _, _)
DecodeLoop(data, i, num) ==
    IF i > Len(data)
    THEN [out |-> [j \in 1..LeadingOneCount(data) |-> 0] \o num, err |-> NoErr]
    ELSE IF IndexRune(data[i]) = 0 - 1
    THEN [out |-> Nil, err |-> "invalid character"]
    ELSE DecodeLoop(data, i + 1, MulAdd(num, Len(Alphabet), IndexRune(data[i])))

\* base58.Decode
Base58Decode(data) ==
    IF data = <<>> THEN [out |-> <<>>, err |-> NoErr]
    ELSE DecodeLoop(data, 1, <<>>)

\* sha256.Sum256 on bytes: a function that mixes every byte and its position
\* into HashSize bytes.
HashSize == 32

\* what the bytes at positions lo..hi add to the mix, each byte weighted by its
\* position
RECURSIVE SumRange(_, _, _)
SumRange(data, lo, hi) ==
    IF lo > hi THEN 0
    ELSE IF lo = hi THEN ((data[lo] + 1) * (lo * lo + lo + 41)) % 65521
    ELSE (SumRange(data, lo, (lo + hi) \div 2)
            + SumRange(data, (lo + hi) \div 2 + 1, hi)) % 65521

SumBytes(h) == [i \in 1..HashSize |-> ((h + i) * (2 * i + 1)) % 256]

\* (h is bound to the value of the mix, so that it is computed once and not
\* once for each byte of the result)
Sum256(data) ==
    CHOOSE out \in {SumBytes(h) :
                      h \in {(SumRange(data, 1, Len(data)) + Len(data) + 7) % 65521}} :
        TRUE

\* hash256d[:4] of the data
ChecksumLen == 4

\* the least number of decoded bytes: a version byte and the checksum
MinDecodedLen == 5

Checksum(data) == SubSeq(Sum256(Sum256(data)), 1, ChecksumLen)

Base58CheckEncode(version, payload) ==
    Base58Encode((<<version>> \o payload) \o Checksum(<<version>> \o payload))

\* Base58CheckDecode after Decode has returned, with a plausible slip: the
\* checksum is not compared.
CheckDecoded_NoChecksum(decoded) ==
    IF decoded.err # NoErr
    THEN [payload |-> Nil, version |-> 0, err |-> "invalid Base58 string"]
    ELSE IF Len(decoded.out) < MinDecodedLen
    THEN [payload |-> Nil, version |-> 0, err |-> "Base58Check string too short"]
    ELSE [payload |-> SubSeq(decoded.out, 2, Len(decoded.out) - ChecksumLen),
          version |-> decoded.out[1], err |-> NoErr]

\* Base58CheckDecode after Decode has returned
CheckDecoded(decoded) ==
    IF decoded.err # NoErr
    THEN [payload |-> Nil, version |-> 0, err |-> "invalid Base58 string"]
    ELSE IF Len(decoded.out) < MinDecodedLen
    THEN [payload |-> Nil, version |-> 0, err |-> "Base58Check string too short"]
    ELSE IF SubSeq(decoded.out, Len(decoded.out) - ChecksumLen + 1, Len(decoded.out))
              # Checksum(SubSeq(decoded.out, 1, Len(decoded.out) - ChecksumLen))
    THEN [payload |-> Nil, version |-> 0, err |-> "checksum validation failed"]
    ELSE [payload |-> SubSeq(decoded.out, 2, Len(decoded.out) - ChecksumLen),
          version |-> decoded.out[1], err |-> NoErr]

Base58CheckDecode(data) == CheckDecoded(Base58Decode(data))

\* The byte slices handed to Encode: every slice of up to MaxData bytes out of
\* 0, 1, 57, 58, 255, the empty slice and the slices of zero bytes among them.
MaxData == 3

Datas == UNION {[1..n -> {0, 1, 57, 58, 255}] : n \in 0..MaxData}

DoBase58Encode ==
    /\ hist = <<>> /\ ret = Nil /\ aret = Nil /\ uret = Nil
    /\ \E data \in Datas :
          uret' = [op |-> "Encode", data |-> data, out |-> Base58Encode(data)]
    /\ UNCHANGED <<hist, rnd, msvars, arvars>>

\* The strings handed to Decode after a call of Encode: what Encode returned,
\* and that string with a '1' in front, with a character outside the alphabet
\* at its end, and without its first character.
DecodeChoices(out) ==
    {out, <<"1">> \o out, out \o <<"0">>, SubSeq(out, 2, Len(out))}

DoBase58Decode ==
    /\ uret # Nil /\ uret.op = "Encode"
    /\ \E data \in DecodeChoices(uret.out) :
          uret' = [op |-> "Decode", data |-> data, from |-> uret]
                    @@ Base58Decode(data)
    /\ UNCHANGED <<hist, rnd, msvars, arvars>>

\* The version bytes and payloads handed to Base58CheckEncode.
MaxPayload == 3

Versions == {0, 5, 128, 239, 255}

Payloads == UNION {[1..n -> {0, 1, 255}] : n \in 0..MaxPayload}

DoBase58CheckEncode ==
    /\ hist = <<>> /\ ret = Nil /\ aret = Nil /\ uret = Nil
    /\ \E version \in Versions, payload \in Payloads :
          uret' = [op |-> "Base58CheckEncode", version |-> version,
                   payload |-> payload,
                   out |-> Base58CheckEncode(version, payload)]
    /\ UNCHANGED <<hist, rnd, msvars, arvars>>

\* data with its last byte changed
LastByteChanged(data) ==
    [data EXCEPT ![Len(data)] = (data[Len(data)] + 1) % 256]

\* The strings handed to Base58CheckDecode after a call of Base58CheckEncode:
\* what it returned; that string with a character outside the alphabet at its
\* end or in front; the empty string; the encoding of the version and the
\* first bytes of the payload alone; the encoding with a changed checksum byte
\* and with a changed payload or version byte.
CheckDecodeChoices(version, payload, out) ==
    {out, out \o <<"O">>, <<"l">> \o out, <<>>,
     Base58Encode(SubSeq(<<version>> \o payload, 1, 1)),
     Base58Encode(SubSeq(<<version>> \o payload \o <<7, 7, 7>>, 1, ChecksumLen)),
     Base58Encode(LastByteChanged((<<version>> \o payload)
                                    \o Checksum(<<version>> \o payload))),
     Base58Encode(LastByteChanged(<<version>> \o payload)
                    \o Checksum(<<version>> \o payload))}

DoBase58CheckDecode ==
    /\ uret # Nil /\ uret.op = "Base58CheckEncode"
    /\ \E data \in CheckDecodeChoices(uret.version, uret.payload, uret.out) :
          uret' = [op |-> "Base58CheckDecode", data |-> data, from |-> uret]
                    @@ Base58CheckDecode(data)
    /\ UNCHANGED <<hist, rnd, msvars, arvars>>

NextBase58 ==
    \/ DoBase58Encode
    \/ DoBase58Decode
    \/ DoBase58CheckEncode
    \/ DoBase58CheckDecode

SpecBase58 == Init /\ [][NextBase58]_vars

----------------------------------------------------------------------------
(* Package wif.  A private key is an array of Len32 bytes, as everywhere   *)
(* in this model; its bytes are bytes, 0..255.                             *)

MAINNET_VERSION == 128

TESTNET_VERSION == 239

\* Encode with a plausible slip: the network flag is not looked at.
WifEncode_AlwaysMainnet(privateKey, compressed, testnet) ==
    IF Len(privateKey) # Len32
    THEN [out |-> <<>>, err |-> "private key must be 32 bytes"]
    ELSE [out |-> Base58CheckEncode(MAINNET_VERSION,
                     IF compressed THEN Append(privateKey, 1) ELSE privateKey),
          err |-> NoErr]

\* wif.Encode
WifEncode(privateKey, compressed, testnet) ==
    IF Len(privateKey) # Len32
    THEN [out |-> <<>>, err |-> "private key must be 32 bytes"]
    ELSE [out |-> Base58CheckEncode(
                     IF testnet THEN TESTNET_VERSION ELSE MAINNET_VERSION,
                     IF compressed THEN Append(privateKey, 1) ELSE privateKey),
          err |-> NoErr]

\* what Decode returns with an error
WifError(err) ==
    [key |-> Zero32, compressed |-> FALSE, version |-> 0, err |-> err]

\* wif.Decode after Base58CheckDecode has returned
WifDecoded(d) ==
    IF d.err # NoErr THEN WifError(d.err)
    ELSE IF Len(d.payload) = Len32 + 1 /\ d.payload[Len(d.payload)] # 1
    THEN WifError("invalid compression flag: expected 0x01")
    ELSE IF Len(d.payload) # Len32 + 1 /\ Len(d.payload) # Len32
    THEN WifError("invalid payload length: expected 32 or 33 bytes")
    ELSE IF d.version # MAINNET_VERSION /\ d.version # TESTNET_VERSION
    THEN WifError("invalid version byte: expected 0x80 (mainnet) or 0xEF (testnet)")
    ELSE [key |-> SubSeq(d.payload, 1, Len32),
          compressed |-> (Len(d.payload) = Len32 + 1),
          version |-> d.version, err |-> NoErr]

\* wif.Decode
WifDecode(wif) == WifDecoded(Base58CheckDecode(wif))

\* The keys handed to Encode: every slice of bytes out of 0, 1, 255 that is
\* up to MaxOver bytes longer than a key, the slices shorter than a key
\* included.
WifKeys == UNION {[1..n -> {0, 1, 255}] : n \in 0..(Len32 + MaxOver)}

DoWifEncode ==
    /\ hist = <<>> /\ ret = Nil /\ aret = Nil /\ uret = Nil
    /\ \E privateKey \in WifKeys, compressed \in BOOLEAN, testnet \in BOOLEAN :
          uret' = [op |-> "WifEncode", privateKey |-> privateKey,
                   compressed |-> compressed, testnet |-> testnet]
                    @@ WifEncode(privateKey, compressed, testnet)
    /\ UNCHANGED <<hist, rnd, msvars, arvars>>

\* The strings handed to Decode after a call of Encode for a key: what Encode
\* returned; the string of TestWIFErrorCases; and the Base58Check strings of
\* the key under a version byte of another network, with a compression flag
\* other than 1, and with a byte too few or too many.
WifDecodeChoices(privateKey, out) ==
    {out,
     <<"i", "n", "v", "a", "l", "i", "d", "-", "w", "i", "f", "-",
       "s", "t", "r", "i", "n", "g">>,
     Base58CheckEncode(0, privateKey),
     Base58CheckEncode(MAINNET_VERSION, Append(privateKey, 2)),
     Base58CheckEncode(TESTNET_VERSION, SubSeq(privateKey, 1, Len(privateKey) - 1)),
     Base58CheckEncode(MAINNET_VERSION, privateKey \o <<1, 1>>)}

DoWifDecode ==
    /\ uret # Nil /\ uret.op = "WifEncode"
    /\ Len(uret.privateKey) \in (Len32 - 1)..(Len32 + 1)
    /\ \E wif \in WifDecodeChoices(uret.privateKey, uret.out) :
          uret' = [op |-> "WifDecode", wif |-> wif, from |-> uret]
                    @@ WifDecode(wif)
    /\ UNCHANGED <<hist, rnd, msvars, arvars>>

NextWif ==
    \/ DoWifEncode
    \/ DoWifDecode

SpecWif == Init /\ [][NextWif]_vars

----------------------------------------------------------------------------
(* MerkleRoot of package hash.  A call is followed pass by pass: uret      *)
(* holds the leaves, the level the loop is at, and what has been returned. *)

\* hash.SHA256D: SHA-256 of SHA-256 (the first hash is bound to its value, so
\* that the second one does not compute it again for each of its bytes)
SHA256D(data) ==
    CHOOSE out \in {Sum256(first) : first \in {Sum256(data)}} : TRUE

\* hash.Concat
Concat(a, b) == a \o b

\* One pass with a plausible slip: an unpaired last hash is left out.
RECURSIVE MerklePass_DropUnpaired(_, _, _)
MerklePass_DropUnpaired(current, i, next) ==
    IF ~(i < Len(current)) THEN next
    ELSE IF i + 1 < Len(current)
    THEN MerklePass_DropUnpaired(current, i + 2,
            Append(next, SHA256D(Concat(current[i + 1], current[i + 2]))))
    ELSE MerklePass_DropUnpaired(current, i + 2, next)

\* One pass of the loop over a level, from the index i on (i counts from 0 as
\* in the code), with the hashes appended so far.
RECURSIVE MerklePass(_, _, _)
MerklePass(current, i, next) ==
    IF ~(i < Len(current)) THEN next
    ELSE IF i + 1 < Len(current)
    THEN MerklePass(current, i + 2,
            Append(next, SHA256D(Concat(current[i + 1], current[i + 2]))))
    ELSE MerklePass(current, i + 2,
            Append(next, SHA256D(Concat(current[i + 1], current[i + 1]))))

\* The lists of leaves: up to MaxLeaves hashes, each one a byte repeated.
MaxLeaves == 5

Leaves == {[i \in 1..HashSize |-> b] : b \in {0, 170}}

LeafLists == UNION {[1..n -> Leaves] : n \in 0..MaxLeaves}

\* MerkleRoot(leaves) up to its loop: the empty list and the single leaf
\* return at once.
DoMerkleRoot ==
    /\ hist = <<>> /\ ret = Nil /\ aret = Nil /\ uret = Nil
    /\ \E leaves \in LeafLists :
          uret' = IF Len(leaves) = 0
                  THEN [op |-> "MerkleRoot", leaves |-> leaves, current |-> <<>>,
                        pc |-> "done", out |-> [i \in 1..HashSize |-> 0]]
                  ELSE IF Len(leaves) = 1
                  THEN [op |-> "MerkleRoot", leaves |-> leaves, current |-> <<>>,
                        pc |-> "done", out |-> leaves[1]]
                  ELSE [op |-> "MerkleRoot", leaves |-> leaves, current |-> leaves,
                        pc |-> "loop", out |-> Nil]
    /\ UNCHANGED <<hist, rnd, msvars, arvars>>

\* for len(current) > 1 { ...; current = next }
DoMerklePass ==
    /\ uret # Nil /\ uret.op = "MerkleRoot" /\ uret.pc = "loop"
    /\ Len(uret.current) > 1
    /\ uret' = [uret EXCEPT !.current = MerklePass(uret.current, 0, <<>>)]
    /\ UNCHANGED <<hist, rnd, msvars, arvars>>

\* return current[0]
DoMerkleReturn ==
    /\ uret # Nil /\ uret.op = "MerkleRoot" /\ uret.pc = "loop"
    /\ ~(Len(uret.current) > 1)
    /\ uret' = [uret EXCEPT !.pc = "done", !.out = uret.current[1]]
    /\ UNCHANGED <<hist, rnd, msvars, arvars>>

NextMerkle ==
    \/ DoMerkleRoot
    \/ DoMerklePass
    \/ DoMerkleReturn

\* A call that has started goes on: nothing but the call itself decides when
\* its next step is taken.
SpecMerkle == Init /\ [][NextMerkle]_vars /\ WF_vars(NextMerkle)

Next ==
    \/ NextSchnorr
    \/ NextMultisig
    \/ NextArithmetic
    \/ NextFieldLaws
    \/ NextRandScalar
    \/ NextToBytes32
    \/ NextBase58
    \/ NextWif
    \/ NextMerkle

Spec == Init /\ [][Next]_vars

----------------------------------------------------------------------------
(* Claims about package schnorr. *)

IsSign(c) == c.op = "SignBIP340"

IsVerify(c) == c.op = "VerifyBIP340"

Calls == 1..Len(hist)

\* a verification of the signature an earlier signing returned, for its message
\* msg and with the key pub
VerifiesSigned(i, j) ==
    /\ i < j /\ IsSign(hist[i]) /\ IsVerify(hist[j])
    /\ hist[i].err = NoErr /\ ~hist[i].panic
    /\ hist[j].sig = hist[i].sig

\* C1: SignBIP340 accepts every non-empty message with every private key, and
\* VerifyBIP340 of the same message, the public key d*G of the signing key and
\* the signature returned is true.
C1_RoundTripVerify ==
    \A i \in Calls :
        /\ (IsSign(hist[i]) /\ hist[i].msg # <<>> /\ hist[i].priv # Nil)
              => (hist[i].err = NoErr /\ ~hist[i].panic)
        /\ \A j \in Calls :
              (/\ VerifiesSigned(i, j)
               /\ hist[j].msg = hist[i].msg
               /\ hist[j].pub = PubKey(hist[i].priv))
              => (hist[j].ok /\ ~hist[j].panic)

\* a message of the greatest length, signed with a key whose public point has
\* an odd y, verifies
C1_Witness ==
    \E i, j \in Calls :
        /\ VerifiesSigned(i, j)
        /\ hist[j].msg = hist[i].msg /\ Len(hist[i].msg) = MaxMsgLen
        /\ hist[j].pub = PubKey(hist[i].priv) /\ IsOddY(hist[j].pub)
        /\ hist[j].ok

C3_TamperedMessage ==
    \A i, j \in Calls :
        (/\ VerifiesSigned(i, j)
         /\ hist[j].msg # hist[i].msg /\ hist[j].msg # <<>>
         /\ hist[j].pub = PubKey(hist[i].priv))
        => ~hist[j].ok

\* a signature was verified with the signer's key and a message that extends
\* the signed one
C3_Witness ==
    \E i, j \in Calls :
        /\ VerifiesSigned(i, j)
        /\ Len(hist[i].msg) = 1 /\ Len(hist[j].msg) = 2
        /\ hist[j].msg[1] = hist[i].msg[1]
        /\ hist[j].pub = PubKey(hist[i].priv)
        /\ ~hist[j].ok

\* C4, as stated: VerifyBIP340 of a signed message and its signature with any
\* public key other than the signer's is false.
C4_WrongKey_AsStated ==
    \A i, j \in Calls :
        (/\ VerifiesSigned(i, j)
         /\ hist[j].msg = hist[i].msg
         /\ hist[j].pub # Nil /\ hist[j].pub # PubKey(hist[i].priv))
        => ~hist[j].ok

\* C4, amended: VerifyBIP340 of a signed message and its signature with a
\* public key whose x-coordinate is not that of the signer's key is false.
C4_WrongKey ==
    \A i, j \in Calls :
        (/\ VerifiesSigned(i, j)
         /\ hist[j].msg = hist[i].msg
         /\ hist[j].pub # Nil /\ hist[j].pub[1] # PubKey(hist[i].priv)[1])
        => ~hist[j].ok

\* a signature was verified with its message and a key of another x
C4_Witness ==
    \E i, j \in Calls :
        /\ VerifiesSigned(i, j)
        /\ hist[j].msg = hist[i].msg
        /\ hist[j].pub # Nil /\ hist[j].pub[1] # PubKey(hist[i].priv)[1]
        /\ ~hist[j].ok

\* C5: SignBIP340 of an empty message or with a nil key returns an error and
\* the all-zero value, and whenever it returns an error the value is all zero.
C5_SignErrors ==
    \A i \in Calls :
        IsSign(hist[i]) =>
            /\ ~hist[i].panic
            /\ (hist[i].msg = <<>> \/ hist[i].priv = Nil)
                  => (hist[i].err # NoErr /\ hist[i].sig = Zero64)
            /\ hist[i].err # NoErr => hist[i].sig = Zero64

\* both refusals happened in one session
C5_Witness ==
    /\ Len(hist) = 2 /\ IsSign(hist[1]) /\ IsSign(hist[2])
    /\ hist[1].msg = <<>> /\ hist[1].priv # Nil /\ hist[1].err # NoErr
    /\ hist[2].msg # <<>> /\ hist[2].priv = Nil /\ hist[2].err # NoErr

\* C7: ParseXOnly of the x-only form of a public key succeeds, the x-only form
\* of its result is the x-only form of the key, and the x-only form of a key is
\* its compressed encoding without the first byte.
C7_XOnlyRoundTrip ==
    \A i \in Calls :
        /\ hist[i].op = "XOnlyFromPub" =>
              /\ ~hist[i].panic
              /\ hist[i].out = SubSeq(SerializeCompressed(hist[i].pub), 2, Len32 + 1)
        /\ (/\ i > 1 /\ hist[i].op = "ParseXOnly"
             /\ hist[i - 1].op = "XOnlyFromPub" /\ hist[i].x32 = hist[i - 1].out)
              => hist[i].err = NoErr
        /\ (/\ i > 2 /\ hist[i].op = "XOnlyFromPub"
             /\ hist[i - 1].op = "ParseXOnly" /\ hist[i - 2].op = "XOnlyFromPub"
             /\ hist[i - 1].x32 = hist[i - 2].out /\ hist[i].pub = hist[i - 1].pub)
              => hist[i].out = hist[i - 2].out

\* the round trip of a key with an odd y: the parsed key is another point
C7_Witness ==
    /\ Len(hist) = 3
    /\ hist[1].op = "XOnlyFromPub" /\ IsOddY(hist[1].pub)
    /\ hist[2].op = "ParseXOnly" /\ hist[2].x32 = hist[1].out
    /\ hist[3].op = "XOnlyFromPub" /\ hist[3].pub = hist[2].pub
    /\ hist[3].pub # hist[1].pub /\ hist[3].out = hist[1].out

\* the public keys whose x-coordinate is x32
KeysOfX(x32) == {pub \in PubKeys : XOnlyFromPub(pub).out = x32}

\* C26: for a non-empty message m, a key pair (d, P) with P of even or of odd
\* y, and any 64 bytes sig, VerifyWithXOnly(m, sig, XOnlyFromPub(P)) returns
\* (b, nil) with b what VerifyBIP340(m, P, sig) returns, which is true for
\* sig = SignBIP340(m, d).
C26_XOnlyVerification ==
    \A i \in Calls :
        (hist[i].op = "VerifyWithXOnly" /\ hist[i].msg # <<>>) =>
            \A pub \in KeysOfX(hist[i].xOnly) :
                /\ ~hist[i].panic /\ hist[i].err = NoErr
                /\ hist[i].ok = VerifyBIP340(hist[i].msg, pub, hist[i].sig).ok
                /\ (/\ i = 2 /\ hist[1].err = NoErr /\ hist[1].priv # Nil
                    /\ hist[1].msg = hist[i].msg /\ hist[1].sig = hist[i].sig
                    /\ PubKey(hist[1].priv) = pub)
                      => hist[i].ok

\* the signature of a key whose point has an odd y, verified with the x of the
\* key
C26_Witness ==
    /\ Len(hist) = 2 /\ hist[2].op = "VerifyWithXOnly"
    /\ hist[1].err = NoErr /\ hist[1].priv # Nil /\ hist[1].msg = hist[2].msg
    /\ IsOddY(PubKey(hist[1].priv))
    /\ hist[2].xOnly = XOnlyFromPub(PubKey(hist[1].priv)).out
    /\ hist[2].sig = hist[1].sig
    /\ hist[2].err = NoErr /\ hist[2].ok

----------------------------------------------------------------------------
(* Claims about verification in both packages. *)

\* The BIP340 equation s*G = R + e*P, for R and P the points of even y whose
\* x-coordinates are r and the x-only key pubX32, and e the challenge.
SatisfiesBIP340(r, s, hash, pubX32) ==
    LET Holds(R, Pk) ==
            /\ R.err = NoErr /\ Pk.err = NoErr
            /\ ScalarBaseMult(s) =
                  AddPoints(R.pub,
                            ScalarMult(SetBytes(TaggedHash(TagChallenge,
                                           PutBytes32(r) \o pubX32 \o hash)) % N,
                                       Pk.pub))
    IN  Holds(ParsePubKey(PutBytes32(r)), ParsePubKey(pubX32))

\* the bytes are a signature: r is a field element and s a scalar
ParsesAsSignature(sigBz) ==
    /\ SetBytes(SubSeq(sigBz, 1, Len32)) < P
    /\ SetBytes(SubSeq(sigBz, Len32 + 1, 2 * Len32)) < N

\* the bytes are a signature that satisfies the equation for the message and
\* the x-only key
ValidFor(msg, sigBz, pubX32) ==
    /\ ParsesAsSignature(sigBz)
    /\ SatisfiesBIP340(SetBytes(SubSeq(sigBz, 1, Len32)),
                       SetBytes(SubSeq(sigBz, Len32 + 1, 2 * Len32)),
                       Sha256(msg), pubX32)

IsVerifyMultisig == ret # Nil /\ ret.op = "VerifyMultisignature"

\* C6: VerifyBIP340 and VerifyMultisignature never panic, and they return true
\* only for a non-empty message, a key, a signature and a setup that are not
\* nil, and signature bytes that parse and satisfy the verification equation
\* (VerifyMultisignature: for the first key the signature carries); for every
\* other input they return false.
C6_VerifyNeverRaises ==
    /\ \A i \in Calls :
          IsVerify(hist[i]) =>
              /\ ~hist[i].panic
              /\ hist[i].ok =>
                    /\ hist[i].msg # <<>> /\ hist[i].pub # Nil
                    /\ ValidFor(hist[i].msg, hist[i].sig, PutBytes32(hist[i].pub[1]))
    /\ IsVerifyMultisig =>
          /\ ~ret.panic
          /\ ret.ok =>
                /\ ret.msg # <<>> /\ ret.sig # Nil /\ ret.setup # Nil
                /\ ret.sig.PubKeys # <<>>
                /\ ValidFor(ret.msg, ret.sig.R \o ret.sig.S, ret.sig.PubKeys[1])

\* VerifyMultisignature returned false for a message, a signature and a setup
\* that are not nil, where the signature parses and does not satisfy the
\* equation
C6_Witness ==
    /\ IsVerifyMultisig
    /\ ret.msg # <<>> /\ ret.sig # Nil /\ ret.setup # Nil /\ ret.sig.PubKeys # <<>>
    /\ ParsesAsSignature(ret.sig.R \o ret.sig.S)
    /\ SetBytes(ret.sig.S) # 0
    /\ ~ValidFor(ret.msg, ret.sig.R \o ret.sig.S, ret.sig.PubKeys[1])
    /\ ~ret.ok /\ ~ret.panic

----------------------------------------------------------------------------
(* Claims about package multisig. *)

IsNewSetup == ret # Nil /\ ret.op = "NewMultisigSetup"

IsCombine == ret # Nil /\ ret.op = "CombineSignatures"

HasKeys(p) == heap[p[1]].PrivateKey # Nil /\ heap[p[1]].PublicKey # Nil

\* C8: NewMultisigSetup returns an error and no setup for an empty list, for a
\* threshold that is not positive and for one above the length of the list;
\* for a list of participants with keys and a threshold from 1 to its length
\* it returns the setup with that threshold and that length as Total.
C8_SetupErrors ==
    IsNewSetup =>
        /\ (\/ Len(ret.participants) = 0
            \/ ret.threshold <= 0
            \/ ret.threshold > Len(ret.participants))
              => (ret.err # NoErr /\ ret.setup = Nil)
        /\ (/\ \A i \in 1..Len(ret.participants) : HasKeys(ret.participants[i])
            /\ 1 <= ret.threshold /\ ret.threshold <= Len(ret.participants))
              => /\ ret.err = NoErr /\ ~ret.panic /\ ret.setup # Nil
                 /\ ret.setup.Threshold = ret.threshold
                 /\ ret.setup.Total = Len(ret.participants)

\* a setup of as many participants as a list may hold, all of them required
C8_Witness ==
    /\ IsNewSetup /\ ret.err = NoErr
    /\ Len(ret.participants) = MaxParticipants
    /\ ret.setup.Threshold = MaxParticipants /\ ret.setup.Total = MaxParticipants

\* C9: a setup that NewMultisigSetup returned has 1 <= Threshold <= Total =
\* len(Participants), and the Index values of its participants are pairwise
\* distinct and lie in 0..Total-1, also when one Participant object is at two
\* positions of the list.
C9_SetupInvariant ==
    (IsNewSetup /\ ret.err = NoErr /\ ~ret.panic) =>
        /\ 1 <= ret.setup.Threshold /\ ret.setup.Threshold <= ret.setup.Total
        /\ ret.setup.Total = Len(ret.setup.Participants)
        /\ \A i, j \in 1..Len(ret.setup.Participants) :
              i # j => heap[ret.setup.Participants[i][1]].Index
                          # heap[ret.setup.Participants[j][1]].Index
        /\ \A i \in 1..Len(ret.setup.Participants) :
              heap[ret.setup.Participants[i][1]].Index \in 0..(ret.setup.Total - 1)

\* the partial signatures come from distinct signers of the setup
DistinctSigners(partialSigs, set) ==
    /\ \A i \in 1..Len(partialSigs) :
          \E k \in 1..Len(set.Participants) :
              /\ HasKeys(set.Participants[k])
              /\ partialSigs[i].PubKey
                    = SerializePubKey(heap[set.Participants[k][1]].PublicKey)
    /\ \A i, j \in 1..Len(partialSigs) :
          i # j => partialSigs[i].PubKey # partialSigs[j].PubKey

SigIndices(partialSigs) == {partialSigs[i].Index : i \in 1..Len(partialSigs)}

\* C11: CombineSignatures returns an error and no signature when an index
\* occurs more than once among the partial signatures, when an index is not
\* in 0..Total-1, and when the distinct indices in 0..Total-1 are fewer than
\* the threshold.
C11_CombineRejects ==
    (/\ IsCombine /\ ret.setup # Nil /\ ret.partialSigs # <<>>
     /\ \/ \E i, j \in 1..Len(ret.partialSigs) :
              i # j /\ ret.partialSigs[i].Index = ret.partialSigs[j].Index
        \/ \E i \in 1..Len(ret.partialSigs) :
              ret.partialSigs[i].Index \notin 0..(ret.setup.Total - 1)
        \/ Cardinality(SigIndices(ret.partialSigs) \cap 0..(ret.setup.Total - 1))
              < ret.setup.Threshold)
    => (ret.err # NoErr /\ ret.sig = Nil)

\* the sum mod N of the S values of the partial signatures
RECURSIVE SumOfS(_)
SumOfS(partialSigs) ==
    IF partialSigs = <<>> THEN 0
    ELSE (SetBytes(Head(partialSigs).S) + SumOfS(Tail(partialSigs))) % N

\* the sum of the nonce commitments: of the points of even y whose
\* x-coordinates are the R values of the partial signatures
RECURSIVE SumOfR(_)
SumOfR(partialSigs) ==
    IF partialSigs = <<>> THEN Infinity
    ELSE AddPoints(ParsePubKey(Head(partialSigs).R).pub, SumOfR(Tail(partialSigs)))

\* C12: a signature that CombineSignatures returned has the sum mod N of the S
\* values of the partial signatures as S, the x-coordinate of the sum of their
\* nonce commitments as R, and their indices; it is not the R and S of one of
\* them when there are two or more.
C12_CombineAggregates ==
    (IsCombine /\ ret.err = NoErr /\ ~ret.panic) =>
        /\ SetBytes(ret.sig.S) = SumOfS(ret.partialSigs)
        /\ SumOfR(ret.partialSigs) # Infinity
        /\ ret.sig.R = PutBytes32(SumOfR(ret.partialSigs)[1])
        /\ ret.sig.Indices
              = [i \in 1..Len(ret.partialSigs) |-> ret.partialSigs[i].Index]
        /\ Len(ret.partialSigs) >= 2 =>
              \A i \in 1..Len(ret.partialSigs) :
                  ~(ret.sig.R = ret.partialSigs[i].R /\ ret.sig.S = ret.partialSigs[i].S)

\* the aggregate key: the sum of the public keys of the participants
RECURSIVE SumOfKeys(_)
SumOfKeys(participants) ==
    IF participants = <<>> THEN Infinity
    ELSE AddPoints(heap[Head(participants)[1]].PublicKey, SumOfKeys(Tail(participants)))

\* C13: VerifyMultisignature of a message, a signature and a setup returns
\* what VerifyBIP340 returns for the message, the sum of the public keys of
\* all participants of the setup, and the bytes R || S of the signature.
C13_VerifiesAggregate ==
    (IsVerifyMultisig /\ ret.sig # Nil /\ ret.setup # Nil) =>
        ret.ok = VerifyBIP340(ret.msg, SumOfKeys(ret.setup.Participants),
                              ret.sig.R \o ret.sig.S).ok

\* C14: VerifyMultisignature returns false for every signature whose Indices
\* name fewer distinct participants than the Threshold of the setup, whatever
\* its R and S.
C14_VerifyBelowThreshold ==
    (/\ IsVerifyMultisig /\ ret.sig # Nil /\ ret.setup # Nil
     /\ Cardinality({ret.sig.Indices[i] : i \in 1..Len(ret.sig.Indices)})
           < ret.setup.Threshold)
    => ~ret.ok

IsPartialSign == ret # Nil /\ ret.op = "CreatePartialSignature"

\* C16: a session goes from Created to NoncesCollected before a partial
\* signature is produced: CreatePartialSignature called in a session that was
\* just created, where no nonce commitment has been collected, returns an
\* error and no signature.
C16_RoundBarrier ==
    [][(/\ IsNewSetup /\ ret.err = NoErr /\ psigs = <<>>
        /\ ret' # Nil /\ ret'.op = "CreatePartialSignature")
       => (ret'.sig = Nil /\ ret'.err # NoErr)]_vars

\* C17: a nonce is used for one partial signature at most: no two partial
\* signatures of a session that one participant made have the same nonce.
\* (R is the x-coordinate of k*G for the nonce k, with k negated where the y
\* is odd, so two signatures of one key have the same R exactly when they
\* were computed with the same nonce.)
C17_SingleUseNonces ==
    \A i, j \in 1..Len(psigs) :
        (i # j /\ psigs[i].PubKey = psigs[j].PubKey) => psigs[i].R # psigs[j].R

IsSignAndVerify == ret # Nil /\ ret.op = "SignAndVerifyMultisig"

IsCreateMultisig == ret # Nil /\ ret.op = "CreateMultisignature"

C25_ParticipantsUnchanged ==
    [][(ret = Nil /\ ret' # Nil /\ ret'.op = "NewMultisigSetup") =>
          \A i \in 1..Len(ret'.participants) :
              ret'.participants[i] # Nil =>
                  heap'[ret'.participants[i][1]] = heap[ret'.participants[i][1]]]_vars

\* C29: for every threshold and total with threshold > total, threshold <= 0
\* or total <= 0, negative values included, SignAndVerifyMultisig returns false
\* with an error; it neither panics nor returns true.
C29_InvalidConfiguration ==
    (IsSignAndVerify /\ (\/ ret.threshold > ret.total
                         \/ ret.threshold <= 0
                         \/ ret.total <= 0)) =>
        (~ret.panic /\ ~ret.ok /\ ret.err # NoErr)

----------------------------------------------------------------------------
(* Claims about the scalar arithmetic. *)

IsArithmetic == aret # Nil /\ aret.op \in {"ModN", "AddModN", "MulModN", "NegModN"}

\* the value of the i-th operand before the call, and the value returned
Operand(i) == aret.before[aret.args[i]]

Result == aret.after[aret.out]

\* C18: ModN, AddModN, MulModN and NegModN return a value in [0, N) for all
\* integer operands; ModN(N) = 0, ModN(-100) = N - 100 and NegModN(0) = 0.
C18_ResultsInRange ==
    IsArithmetic =>
        IF aret.panic THEN FALSE
        ELSE /\ Result \in 0..(N - 1)
             /\ (aret.op = "ModN" /\ Operand(1) = N) => Result = 0
             /\ (aret.op = "ModN" /\ Operand(1) = 0 - 100) => Result = N - 100
             /\ (aret.op = "NegModN" /\ Operand(1) = 0) => Result = 0

IsFieldLaw(op) == aret # Nil /\ aret.op = op

\* C19: for all a, b, c in [0, N): AddModN(AddModN(a, b), c) =
\* AddModN(a, AddModN(b, c)); MulModN(a, AddModN(b, c)) =
\* AddModN(MulModN(a, b), MulModN(a, c)); AddModN(a, NegModN(a)) = 0; and
\* NegModN(NegModN(a)) = a.
C19_FieldLaws ==
    /\ (IsFieldLaw("AddModNAssociativity") \/ IsFieldLaw("MulModNDistributivity"))
          => IF aret.panic THEN FALSE
             ELSE aret.after[aret.left] = aret.after[aret.right]
    /\ IsFieldLaw("NegModNDoubleNegation")
          => IF aret.panic THEN FALSE
             ELSE /\ aret.after[aret.left] = 0
                  /\ aret.after[aret.right] = aret.before[2]

\* the two sides of the distributive law agree where the sum b + c and the
\* products wrap around N
C19_Witness ==
    /\ IsFieldLaw("MulModNDistributivity") /\ ~aret.panic
    /\ aret.before[3] + aret.before[4] > N
    /\ aret.before[2] * aret.before[3] > N /\ aret.before[2] * aret.before[4] > N
    /\ aret.after[aret.left] = aret.after[aret.right]
    /\ aret.after[aret.left] \in 1..(N - 1)

IsRandScalar == aret # Nil /\ aret.op = "RandScalar"

\* the read is a failure of the entropy source or bytes that do not reduce to 0
EndsDraws(read) == IF read = Nil THEN TRUE ELSE SetBytes(read) % N # 0

\* C20: RandScalar returns only scalars k with 1 <= k <= N - 1: it goes past
\* every read that reduces to 0 and returns the first one that does not,
\* reduced; an error of the entropy source is returned at once, with no scalar
\* and no further read.
C20_RandScalar ==
    IsRandScalar =>
        IF aret.panic THEN FALSE
        ELSE LET last == CHOOSE i \in 1..Len(aret.stream) :
                             /\ EndsDraws(aret.stream[i])
                             /\ \A j \in 1..(i - 1) : ~EndsDraws(aret.stream[j])
             IN  /\ aret.reads = last
                 /\ aret.stream[last] = Nil => (aret.err # NoErr /\ aret.k = Nil)
                 /\ aret.stream[last] # Nil =>
                       /\ aret.err = NoErr /\ aret.k # Nil
                       /\ aret.k[1] \in 1..(N - 1)
                       /\ aret.k[1] = SetBytes(aret.stream[last]) % N

\* a read of the bytes of N, which reduces to 0, was discarded, bytes of a
\* value above N were returned reduced, and the reads after them were not made
C20_Witness ==
    /\ IsRandScalar /\ aret.err = NoErr
    /\ aret.reads >= 2 /\ aret.reads < Len(aret.stream)
    /\ SetBytes(aret.stream[1]) = N
    /\ SetBytes(aret.stream[aret.reads]) > N
    /\ aret.k[1] \in 1..(N - 1)

\* C21: a call of ModN, AddModN, MulModN or NegModN leaves every operand it
\* was passed with the value it had before the call, and the result is a value
\* of its own, none of the operands.
C21_OperandsUnchanged ==
    (IsArithmetic /\ ~aret.panic) =>
        /\ \A i \in 1..Len(aret.args) :
               aret.after[aret.args[i]] = aret.before[aret.args[i]]
        /\ \A i \in 1..Len(aret.args) : aret.out # aret.args[i]

\* C28: after any calls of the scalar arithmetic, with any arguments, the value
\* of GetCurveOrder among them, the package's N is the curve order.
C28_CurveOrderImmutable == orderN = N

----------------------------------------------------------------------------
(* Claims about the byte utilities. *)

IsToBytes32 == uret # Nil /\ uret.op = "ToBytes32"

\* C27: for a slice of any length both copies of ToBytes32 return, and they
\* return the same array: the slice right-aligned after zero bytes when it has
\* at most 32 bytes, its rightmost 32 bytes when it has more.
C27_ToBytes32Agree ==
    IsToBytes32 =>
        /\ ~uret.multisig.panic /\ ~uret.arithmetic.panic
        /\ uret.multisig.out = uret.arithmetic.out
        /\ Len(uret.arithmetic.out) = Len32
        /\ \A i \in 1..Len32 :
              uret.arithmetic.out[i] =
                  IF Len32 - i < Len(uret.b)
                  THEN uret.b[Len(uret.b) - (Len32 - i)] ELSE 0

----------------------------------------------------------------------------
(* Claims about package base58.                                            *)

IsBase58Encode == uret # Nil /\ uret.op = "Encode"

IsBase58Decode == uret # Nil /\ uret.op = "Decode"

\* C22: Decode of what Encode returned for a byte slice succeeds and returns
\* exactly that slice, the empty slice, slices with leading zero bytes and
\* slices of zero bytes only included; and what Encode returns starts with
\* exactly as many characters '1' as the slice has leading zero bytes.
C22_Base58RoundTrip ==
    /\ IsBase58Encode =>
          /\ LeadingOneCount(uret.out) = LeadingZeroCount(uret.data)
          /\ \A i \in 1..Len(uret.out) :
                \E j \in 1..Len(Alphabet) : uret.out[i] = Alphabet[j]
    /\ (IsBase58Decode /\ uret.data = uret.from.out) =>
          /\ uret.err = NoErr
          /\ Len(uret.out) = Len(uret.from.data)
          /\ uret.out = uret.from.data

\* a slice with two leading zero bytes and a byte after them came back
C22_Witness ==
    /\ IsBase58Decode /\ uret.data = uret.from.out
    /\ uret.from.data = <<0, 0, 255>>
    /\ uret.out = <<0, 0, 255>>
    /\ SubSeq(uret.data, 1, 2) = <<"1", "1">>

IsBase58CheckDecode == uret # Nil /\ uret.op = "Base58CheckDecode"

\* the string has a character outside the alphabet
HasForeignCharacter(data) ==
    \E i \in 1..Len(data) : \A j \in 1..Len(Alphabet) : data[i] # Alphabet[j]

\* the bytes that the characters of the string stand for, when all of them are
\* in the alphabet
DecodedBytes(data) == Base58Decode(data).out

\* the last 4 of the bytes differ from the checksum of the bytes before them
ChecksumDiffers(bytes) ==
    SubSeq(bytes, Len(bytes) - 3, Len(bytes))
      # SubSeq(Sum256(Sum256(SubSeq(bytes, 1, Len(bytes) - 4))), 1, 4)

Base58CheckRejects(data) ==
    \/ HasForeignCharacter(data)
    \/ Len(DecodedBytes(data)) < 5
    \/ ChecksumDiffers(DecodedBytes(data))

\* C23: Base58CheckDecode returns an error and no payload for a string with a
\* character outside the alphabet, for a string that decodes to fewer than 5
\* bytes (the empty string is one) and for a string whose last 4 decoded bytes
\* are not the checksum of the bytes before them; of what Base58CheckEncode
\* returned for a version and a payload it returns that payload and version
\* without error.
C23_Base58CheckDecode ==
    IsBase58CheckDecode =>
       /\ Base58CheckRejects(uret.data) =>
             (uret.err # NoErr /\ uret.payload = Nil)
       /\ uret.data = uret.from.out =>
             /\ uret.err = NoErr
             /\ uret.payload = uret.from.payload
             /\ uret.version = uret.from.version

\* a string whose checksum byte was changed has been refused, with all its
\* characters in the alphabet and more than 5 bytes behind them
C23_Witness ==
    /\ IsBase58CheckDecode
    /\ uret.err = "checksum validation failed"
    /\ ~HasForeignCharacter(uret.data)
    /\ Len(DecodedBytes(uret.data)) > 5
    /\ uret.from.version = 0


----------------------------------------------------------------------------
(* Claims about package wif.                                               *)

IsWifEncode == uret # Nil /\ uret.op = "WifEncode"

IsWifDecode == uret # Nil /\ uret.op = "WifDecode"

\* C24: Decode of what Encode returned for a key of the length of a key, a
\* compressed flag and a network flag returns that key, that flag and the
\* version 0xEF for testnet and 0x80 otherwise, without error; Encode returns
\* an error for every key of another length.
C24_WifRoundTrip ==
    /\ IsWifEncode =>
          /\ Len(uret.privateKey) # Len32 => uret.err # NoErr
          /\ Len(uret.privateKey) = Len32 => uret.err = NoErr
    /\ (IsWifDecode /\ uret.from.err = NoErr /\ uret.wif = uret.from.out) =>
          /\ uret.err = NoErr
          /\ uret.key = uret.from.privateKey
          /\ uret.compressed = uret.from.compressed
          /\ uret.version = (IF uret.from.testnet THEN 239 ELSE 128)

\* a compressed testnet key that ends in the byte 1 came back
C24_Witness ==
    /\ IsWifDecode /\ uret.from.err = NoErr /\ uret.wif = uret.from.out
    /\ uret.from.compressed /\ uret.from.testnet
    /\ uret.key = <<0, 255, 1>>
    /\ uret.version = 239


----------------------------------------------------------------------------
(* Claims about MerkleRoot.                                                *)

IsMerkleRoot == uret # Nil /\ uret.op = "MerkleRoot"

\* the hash of the pair at position k of the level above level
PairHash(level, k) ==
    IF 2 * k <= Len(level)
    THEN SHA256D(level[2 * k - 1] \o level[2 * k])
    ELSE SHA256D(level[2 * k - 1] \o level[2 * k - 1])

\* a pass of the loop: from a level of n > 1 hashes to ceil(n/2) hashes, the
\* hashes of its pairs, an unpaired last hash with itself
MerklePassOk ==
    (IsMerkleRoot /\ uret.pc = "loop" /\ uret'.pc = "loop") =>
        /\ Len(uret.current) > 1
        /\ 2 * Len(uret'.current) \in {Len(uret.current), Len(uret.current) + 1}
        /\ \A k \in 1..Len(uret'.current) :
              uret'.current[k] = PairHash(uret.current, k)

\* the return out of the loop: exactly one hash is left and it is returned
MerkleReturnOk ==
    (IsMerkleRoot /\ uret.pc = "loop" /\ uret'.pc = "done") =>
        /\ Len(uret.current) = 1
        /\ uret'.out = uret.current[1]

\* what a call that has returned gave for the empty list and the single leaf
MerkleOutOk ==
    (IsMerkleRoot /\ uret.pc = "done") =>
        /\ Len(uret.leaves) = 0 => uret.out = [i \in 1..32 |-> 0]
        /\ Len(uret.leaves) = 1 => uret.out = uret.leaves[1]
        /\ Len(uret.out) = 32

\* C30: MerkleRoot terminates for every list of leaves: a call in its loop
\* returns; each pass makes of a level of n > 1 hashes one of ceil(n/2) hashes,
\* an unpaired last hash combined with itself; the loop ends when exactly one
\* hash is left, which is returned; the empty list gives the all-zero hash and
\* a single leaf gives that leaf.
C30_MerkleRootTerminates ==
    /\ [][MerklePassOk /\ MerkleReturnOk]_vars
    /\ []MerkleOutOk
    /\ (IsMerkleRoot /\ uret.pc = "loop") ~> (IsMerkleRoot /\ uret.pc = "done")

\* a call for five leaves has returned the hash of the third level, whose
\* second hash came from an unpaired hash
C30_Witness ==
    /\ IsMerkleRoot /\ uret.pc = "done"
    /\ Len(uret.leaves) = 5
    /\ Len(uret.current) = 1
    /\ uret.out = PairHash(<<PairHash(<<PairHash(uret.leaves, 1),
                                        PairHash(uret.leaves, 2)>>, 1),
                             PairHash(<<PairHash(uret.leaves, 3)>>, 1)>>, 1)


====
